---- MODULE Spec2Model ----
(***************************************************************************)
(* A model of the XDF -> SET conversion core of vr_tsst_2025               *)
(* (pipelines/01_xdf_to_set/xdf_to_set.py).                                *)
(*                                                                         *)
(* Every component of the conversion is a pure function of its arguments;  *)
(* each is modelled by an operator computed the way the code computes it,  *)
(* and is exercised by a specification whose Init draws the arguments from *)
(* bounded sets and whose actions apply the function.  The conversion of   *)
(* one file, xdf_to_set, is a process whose position pc steps through the  *)
(* numbered steps of the function and ends at "saved" or at "raised".      *)
(* The batch runners around it (end2end, sequential, parallel, and the     *)
(* stage-1 runner under the pipeline master) are processes too: a loop     *)
(* takes one step per participant, a pool worker one step per task.  Where *)
(* a claim is about what a caller can observe of a dict, dicts are objects *)
(* held by reference.                                                      *)
(*                                                                         *)
(* Time is counted in integer ticks; where the sampling rate matters one   *)
(* sample period is TicksPerSample ticks, so that (t - start) * srate is   *)
(* the rational (t - start) / TicksPerSample.  A pandas/numpy missing      *)
(* value (NaN, None) is modelled by an explicit "nan" cell.                *)
(***************************************************************************)
EXTENDS Integers, Sequences, FiniteSets, TLC

VARIABLES
    pc,                 \* position of the component under analysis
    streamA, streamB,   \* align_streams: the two extracted streams
    aligned,            \* align_streams: its outcome
    df_physio,          \* the metadata log: [columns, rows]
    conditions,         \* the 'conditions' section of the config, in file order
    classified,         \* add_exposure_type_from_config: its outcome
    event_ts,           \* extract_event_timestamps: its outcome
    response_ts,        \* extract_response_timestamps: its outcome
    eeg_dt_aligned,     \* build_eeg_event_list: the aligned sample timestamps
    event_ts_dict,      \* build_eeg_event_list: label -> timestamp(s)
    export_event_labels,\* build_eeg_event_list: the export allow-list
    ignore_missing,     \* build_eeg_event_list: drop out-of-span events
    event_list,         \* build_eeg_event_list: its outcome
    aligned_dt,         \* align_timestamps: its outcome
    xdf,                \* load_and_merge: the recording file
    physio_csv,         \* the metadata log file of the recording
    config_yaml,        \* the condition config file
    stripped,           \* strip_aux_channels: its outcome
    merged,             \* merge_streams / load_and_merge: the outcome
    channel_names,      \* config/eeg_metadata.yaml: channel_names
    template,           \* config/eeglab_template.yaml
    EEG,                \* build_eeglab_struct / add_events_to_eeg_struct
    set_file,           \* save_set: the output file
    runner,             \* batch: the runner script that is executing
    participants,       \* batch: the requested participant numbers
    recordings,         \* batch: data/RAW/eeg, participant -> kind of file
    sets,               \* batch: output/sets, the participants with a file
    processes,          \* parallel runner: number of pool workers
    position,           \* loop runners: 1-based index of the next participant
    success_count,      \* batch: conversions that succeeded
    skipped_count,      \* sequential runner: outputs found on disk
    failed_count,       \* batch: conversions that failed
    stdout,             \* loop runners: one printed outcome per participant
    workers,            \* pool: worker -> index of its task, 0 when idle
    taskqueue,          \* pool: indices of the tasks not handed out yet
    outqueue,           \* pool: index -> result of convert_participant
    results,            \* parallel runner: the list returned by pool.map
    exit_status,        \* batch: exit status of the runner, Running before
    stage               \* pipeline master: stage 1 and its recorded result

alignVars == <<streamA, streamB, aligned>>
logVars == <<df_physio, conditions>>
extractVars == <<classified, event_ts, response_ts>>
latencyVars ==
    <<eeg_dt_aligned, event_ts_dict, export_event_labels, ignore_missing,
      event_list, aligned_dt>>

diskVars == <<xdf, physio_csv, config_yaml>>
mergeVars == <<diskVars, stripped, merged>>
containerVars == <<channel_names, template, EEG, set_file>>

batchVars ==
    <<runner, participants, recordings, sets, processes, position, success_count,
      skipped_count, failed_count, stdout, workers, taskqueue, outqueue,
      results, exit_status, stage>>
vars ==
    <<pc, alignVars, logVars, extractVars, latencyVars, mergeVars,
      containerVars, batchVars>>

----------------------------------------------------------------------------
(* Bounds of the model *)

\* longest timestamp vector of an input stream
MaxLen == 3
\* largest timestamp (ticks) of an input stream
MaxT == 4
\* most rows of a metadata log given to the condition classifier
MaxRows == 2
\* most labels of a condition config
MaxLabels == 2
\* most rows of a classified log given to the onset extractor
MaxOnsetRows == 3
\* most rows of an enumerated log given to the response extractor
MaxRespRows == 3
\* most samples of a merged signal given to the latency converter
MaxSamples == 3
\* ticks of the model's clock in one sample period (1 / srate)
TicksPerSample == 2
\* most timestamps in the list of a response label
MaxListLen == 2

----------------------------------------------------------------------------
(* Generic helpers *)

Min(a, b) == IF a <= b THEN a ELSE b
Max(a, b) == IF a >= b THEN a ELSE b

\* Python's s[lo:hi] for 0 <= lo, 0 <= hi (0-based, hi exclusive, clipped)
Slice(s, lo, hi) == SubSeq(s, lo + 1, Min(hi, Len(s)))

\* the non-decreasing sequences over 0..maxv of length 1..maxlen
SortedSeqs(maxlen, maxv) ==
    UNION { { s \in [1..n -> 0..maxv] : \A i \in 1..(n - 1) : s[i] <= s[i + 1] }
            : n \in 1..maxlen }

Pending == [status |-> "pending"]

\* values of the variables a specification does not use
NoStream == [name |-> "none", timestamps |-> <<>>, data |-> <<>>]
NoLog == [columns |-> {}, rows |-> <<>>]

\* the parts of the state a specification leaves unused
IdleAlign == streamA = NoStream /\ streamB = NoStream /\ aligned = Pending
IdleExtract ==
    classified = Pending /\ event_ts = Pending /\ response_ts = Pending
IdleLatency ==
    /\ eeg_dt_aligned = <<>>
    /\ event_ts_dict = <<>>
    /\ export_event_labels = [is_dict |-> FALSE, map |-> <<>>]
    /\ ignore_missing = TRUE
    /\ event_list = Pending
    /\ aligned_dt = Pending

NoFile == [exists |-> FALSE, streams |-> <<>>]
Absent == [exists |-> FALSE]

NoMetadata == physio_csv = Absent /\ config_yaml = Absent
IdleMerge ==
    xdf = NoFile /\ NoMetadata /\ stripped = Pending /\ merged = Pending
IdleContainer ==
    /\ channel_names = <<>>
    /\ template = << >>
    /\ EEG = Pending
    /\ set_file = Absent

\* exit status of a runner that has not exited yet
Running == 0 - 1
IdleBatch ==
    /\ runner = "none"
    /\ participants = <<>>
    /\ recordings = << >>
    /\ sets = {}
    /\ processes = 0
    /\ position = 0
    /\ success_count = 0
    /\ skipped_count = 0
    /\ failed_count = 0
    /\ stdout = <<>>
    /\ workers = << >>
    /\ taskqueue = <<>>
    /\ outqueue = << >>
    /\ results = <<>>
    /\ exit_status = Running
    /\ stage = Pending

\* the sequences over S of length lo..hi
SeqsOf(S, lo, hi) == UNION { [1..n -> S] : n \in lo..hi }

----------------------------------------------------------------------------
(* Stream Aligner: align_streams *)

\* np.searchsorted(a, v) with the default side='left' on a sorted vector:
\* the 0-based insertion index, i.e. the number of elements < v
searchsorted(a, v) == Cardinality({ i \in DOMAIN a : a[i] < v })

\* channels of a raw eego stream: 64 EEG channels, trigger and counter
RawChannels == 66
\* EEG channels of one amplifier
EegChannels == 64

\* A stream of the recording as pyxdf parses it.  The sample matrix
\* time_series is kept by its two axes: the sequence of its rows, a row
\* being identified by the index it has in the recording, and (channels)
\* the sequence of its columns, a column being identified by the stream and
\* the channel number.  The cell of row r and column <<s, c>> is the sample
\* r of channel c of stream s.
XdfStream(type, name, rate, ts, nch) ==
    [info |-> [type |-> type, name |-> name, nominal_srate |-> rate],
     time_stamps |-> ts,
     time_series |-> [i \in DOMAIN ts |-> i],
     channels |-> [c \in 1..nch |-> <<name, c>>]]

\* float() of the nominal rates the model uses
float(str) == CASE str = "250" -> 250 [] str = "500" -> 500

\* extract_single_stream: the samples scaled by 1000 (mV to uV), the
\* timestamps, the rate as a number, the name
extract_single_stream(stream) ==
    [name |-> stream.info.name,
     srate |-> float(stream.info.nominal_srate),
     timestamps |-> stream.time_stamps,
     data |-> stream.time_series,
     channels |-> stream.channels,
     scale |-> 1000]

\* A 66-channel, 500 Hz stream as extract_single_stream returns it
Stream(name, ts) ==
    extract_single_stream(XdfStream("EEG", name, "500", ts, RawChannels))

\* (mutant) the overlap guard with a strict comparison
no_overlap_strict(start, end) == start > end

\* step 1 of align_streams: the guard that rejects non-overlapping streams
no_overlap(start, end) == start >= end

\* (mutant) the common sample count taken as the longer slice
common_length_max(nA, nB) == Max(nA, nB)

\* step 4 of align_streams: the common sample count
common_length(nA, nB) == Min(nA, nB)

align_streams(sA, sB) ==
    LET tsA == sA.timestamps
        tsB == sB.timestamps
        start == Max(tsA[1], tsB[1])
        end == Min(tsA[Len(tsA)], tsB[Len(tsB)])
        idxA_start == searchsorted(tsA, start)
        idxA_end == searchsorted(tsA, end)
        idxB_start == searchsorted(tsB, start)
        idxB_end == searchsorted(tsB, end)
        newA_ts == Slice(tsA, idxA_start, idxA_end)
        newA_data == Slice(sA.data, idxA_start, idxA_end)
        newB_ts == Slice(tsB, idxB_start, idxB_end)
        newB_data == Slice(sB.data, idxB_start, idxB_end)
        n == common_length(Len(newA_data), Len(newB_data))
    IN  IF no_overlap(start, end)
        THEN [status |-> "ValueError",
              message |-> "Streams do not overlap in time."]
        ELSE [status |-> "ok",
              A |-> [name |-> sA.name,
                     srate |-> sA.srate,
                     timestamps |-> Slice(newA_ts, 0, n),
                     data |-> Slice(newA_data, 0, n),
                     channels |-> sA.channels,
                     scale |-> sA.scale],
              B |-> [name |-> sB.name,
                     srate |-> sB.srate,
                     timestamps |-> Slice(newB_ts, 0, n),
                     data |-> Slice(newB_data, 0, n),
                     channels |-> sB.channels,
                     scale |-> sB.scale]]

InitAlign ==
    /\ pc = "align_streams"
    /\ df_physio = NoLog
    /\ conditions = <<>>
    /\ IdleExtract
    /\ IdleMerge
    /\ IdleContainer
    /\ IdleBatch
    /\ IdleLatency
    /\ streamA \in { Stream("A", ts) : ts \in SortedSeqs(MaxLen, MaxT) }
    /\ streamB \in { Stream("B", ts) : ts \in SortedSeqs(MaxLen, MaxT) }
    /\ aligned = Pending

AlignStreams ==
    /\ pc = "align_streams"
    /\ aligned' = align_streams(streamA, streamB)
    /\ pc' = "done"
    /\ UNCHANGED <<streamA, streamB, logVars, extractVars, latencyVars,
                   mergeVars, containerVars, batchVars>>

NextAlign == AlignStreams

SpecAlign == InitAlign /\ [][NextAlign]_vars

\* the overlap window of the two input streams
OverlapStart == Max(streamA.timestamps[1], streamB.timestamps[1])
OverlapEnd ==
    Min(streamA.timestamps[Len(streamA.timestamps)],
        streamB.timestamps[Len(streamB.timestamps)])

\* C1: for sorted input streams that overlap (start < end), align_streams
\* returns two streams whose data row counts and timestamp-vector lengths
\* all equal one value n, and n is at most the length of either input.
AlignmentLengthInvariant ==
    (pc = "done" /\ OverlapStart < OverlapEnd) =>
        /\ aligned.status = "ok"
        /\ LET n == Len(aligned.A.data)
           IN  /\ Len(aligned.A.timestamps) = n
               /\ Len(aligned.B.data) = n
               /\ Len(aligned.B.timestamps) = n
               /\ n <= Min(Len(streamA.timestamps), Len(streamB.timestamps))

\* C1 witness: an overlapping pair whose two overlap slices differ in
\* length, so that the truncation to the common length has acted
AlignmentLengthWitness ==
    /\ pc = "done"
    /\ OverlapStart < OverlapEnd
    /\ aligned.status = "ok"
    /\ Len(aligned.A.data) >= 1
    /\ searchsorted(streamA.timestamps, OverlapEnd)
            - searchsorted(streamA.timestamps, OverlapStart)
         # searchsorted(streamB.timestamps, OverlapEnd)
            - searchsorted(streamB.timestamps, OverlapStart)

\* C2: for streams whose ranges are disjoint or touch at a single instant
\* (start >= end), align_streams raises the 'Streams do not overlap in
\* time' error and returns no stream at all.
NonOverlapRejection ==
    (pc = "done" /\ OverlapStart >= OverlapEnd) =>
        /\ aligned.status = "ValueError"
        /\ aligned.message = "Streams do not overlap in time."
        /\ DOMAIN aligned = {"status", "message"}

\* C2 witness: two streams that touch at exactly one instant were rejected
NonOverlapWitness ==
    /\ pc = "done"
    /\ OverlapStart = OverlapEnd
    /\ Len(streamA.timestamps) >= 2
    /\ Len(streamB.timestamps) >= 2
    /\ aligned.status = "ValueError"

\* the samples of a stream whose timestamps lie in the closed window
\* [OverlapStart, OverlapEnd], by position in the stream
InClosedWindow(stream) ==
    SelectSeq([i \in DOMAIN stream.timestamps |-> i],
              LAMBDA i : /\ OverlapStart <= stream.timestamps[i]
                         /\ stream.timestamps[i] <= OverlapEnd)

\* the first n of the positions ps of stream, as timestamps and as rows
TimestampsAt(stream, ps, n) == [k \in 1..n |-> stream.timestamps[ps[k]]]
RowsAt(stream, ps, n) == [k \in 1..n |-> stream.data[ps[k]]]

\* C27: align_streams slices each stream to the samples whose timestamps lie
\* in the closed overlap window [start, end], the sample stamped end
\* included, and truncates both slices to their first n = min(slice length
\* of A, slice length of B) samples, a contiguous run of each stream in its
\* original order.
ClosedWindowSlices ==
    (pc = "done" /\ aligned.status = "ok") =>
        LET inA == InClosedWindow(streamA)
            inB == InClosedWindow(streamB)
            n == Min(Len(inA), Len(inB))
        IN  /\ aligned.A.timestamps = TimestampsAt(streamA, inA, n)
            /\ aligned.A.data = RowsAt(streamA, inA, n)
            /\ aligned.B.timestamps = TimestampsAt(streamB, inB, n)
            /\ aligned.B.data = RowsAt(streamB, inB, n)

\* C30: whenever align_streams returns without raising, both returned
\* streams hold at least one sample, so that the merged signal given to the
\* timestamp mapping and the latency conversion is never empty.
AlignedNeverEmpty ==
    (pc = "done" /\ aligned.status = "ok") =>
        /\ Len(aligned.A.timestamps) >= 1
        /\ Len(aligned.B.timestamps) >= 1

----------------------------------------------------------------------------
(* Condition Classifier: add_exposure_type_from_config *)

\* a missing cell of the log (NaN / None)
NaN == "NaN"

\* the label np.select gives a row no condition matches
DefaultLabel == "no exposure"

\* the columns add_exposure_type_from_config normalises before matching
cols_to_norm ==
    {"Unity Scene", "Study_Phase", "Shown_Scene", "Arithmetic_Task",
     "Participant_State"}

\* .astype(str).str.strip().str.replace(r"\s+", " "): the cell as text,
\* trimmed, inner whitespace runs collapsed; a missing cell becomes "nan"
normalize(v) ==
    CASE v = NaN -> "nan"
      [] v = " Forest1 " -> "Forest1"
      [] v = "Stress  Room" -> "Stress Room"
      [] OTHER -> v

\* the log after the normalisation loop
normalize_columns(df) ==
    [columns |-> df.columns,
     rows |-> [i \in DOMAIN df.rows |->
                 [c \in df.columns |->
                    IF c \in cols_to_norm THEN normalize(df.rows[i][c])
                    ELSE df.rows[i][c]]]]

\* one per-column test: membership for a list value, equality for a scalar
filter_test(cell, value) ==
    IF value.is_list
    THEN \E k \in DOMAIN value.value : cell = value.value[k]
    ELSE cell = value.value[1]

\* (mutant) a filter on a column the log lacks makes the label match no row
filter_term_missing_fails(df, row, col, value) ==
    col \in df.columns /\ filter_test(row[col], value)

\* the contribution of one filter to a label's mask for one row: a filter on
\* a column the log lacks is skipped ('continue')
filter_term(df, row, col, value) ==
    col \notin df.columns \/ filter_test(row[col], value)

\* the boolean mask of one label: the AND of its filters, row by row
condition_mask(df, filters) ==
    [i \in DOMAIN df.rows |->
        \A col \in DOMAIN filters : filter_term(df, df.rows[i], col, filters[col])]

\* int(mask.sum())
mask_sum(mask) == Cardinality({ i \in DOMAIN mask : mask[i] })

\* (mutant) the last matching condition wins
np_select_last(condlist, choicelist, default, n) ==
    [i \in 1..n |->
        IF \E k \in DOMAIN condlist : condlist[k][i]
        THEN choicelist[CHOOSE k \in DOMAIN condlist :
                          /\ condlist[k][i]
                          /\ \A j \in DOMAIN condlist : condlist[j][i] => j <= k]
        ELSE default]

\* np.select(condlist, choicelist, default) over n rows: the choice of the
\* first condition that holds for the row, the default when none does
np_select(condlist, choicelist, default, n) ==
    [i \in 1..n |->
        IF \E k \in DOMAIN condlist : condlist[k][i]
        THEN choicelist[CHOOSE k \in DOMAIN condlist :
                          /\ condlist[k][i]
                          /\ \A j \in DOMAIN condlist : condlist[j][i] => k <= j]
        ELSE default]

add_exposure_type_from_config(df, conditions_dict) ==
    LET norm == normalize_columns(df)
        condition_masks ==
            [k \in DOMAIN conditions_dict |->
                condition_mask(norm, conditions_dict[k].filters)]
        label_order == [k \in DOMAIN conditions_dict |-> conditions_dict[k].label]
        match_counts ==
            [k \in DOMAIN conditions_dict |-> mask_sum(condition_masks[k])]
    IN  IF conditions_dict = <<>>
        THEN [status |-> "ValueError", message |-> "No 'conditions' section found"]
        ELSE [status |-> "ok",
              df |-> norm,
              label_match_counts |-> match_counts,
              exposure_type |->
                  np_select(condition_masks, label_order, DefaultLabel,
                            Len(norm.rows))]

\* the labels of a config, by position in the file
LabelNames == <<"L1", "L2", "L3", "L4", "L5", "L6">>

Scalar(v) == [is_list |-> FALSE, value |-> <<v>>]
List(vs) == [is_list |-> TRUE, value |-> vs]

\* the filter values a config may give for a column; "duration" is a key of
\* the config that is no column of any log
FilterValues(col) ==
    CASE col = "Shown_Scene" ->
            {Scalar("Forest1"), List(<<"Forest1", "Stress Room">>)}
      [] col = "Participant_State" -> {Scalar("TaskTime")}
      [] col = "duration" -> {Scalar("180")}

FilterCols == {"Shown_Scene", "Participant_State", "duration"}

\* the filter-sets: a filter value for each column of a subset of FilterCols
FilterSets ==
    UNION { { f \in [cs -> UNION { FilterValues(c) : c \in cs }] :
                \A c \in cs : f[c] \in FilterValues(c) }
            : cs \in SUBSET FilterCols }

\* the configs: up to MaxLabels labels, each with a filter-set
Configs ==
    { [k \in DOMAIN fs |-> [label |-> LabelNames[k], filters |-> fs[k]]]
      : fs \in SeqsOf(FilterSets, 0, MaxLabels) }

\* the raw cells a log may hold in a column
RawValues(col) ==
    CASE col = "Shown_Scene" -> {"Forest1", " Forest1 ", "Stress  Room"}
      [] col = "Participant_State" -> {"TaskTime", "Begin"}

\* the logs: with or without the Participant_State column, up to MaxRows rows
Logs ==
    UNION { { [columns |-> cs, rows |-> rs]
              : rs \in SeqsOf({ r \in [cs -> UNION { RawValues(c) : c \in cs }] :
                                  \A c \in cs : r[c] \in RawValues(c) },
                              0, MaxRows) }
            : cs \in {{"Shown_Scene"}, {"Shown_Scene", "Participant_State"}} }

InitClassify ==
    /\ pc = "add_exposure_type_from_config"
    /\ IdleAlign
    /\ df_physio \in Logs
    /\ conditions \in Configs
    /\ IdleExtract
    /\ IdleMerge
    /\ IdleContainer
    /\ IdleBatch
    /\ IdleLatency

AddExposureType ==
    /\ pc = "add_exposure_type_from_config"
    /\ classified' = add_exposure_type_from_config(df_physio, conditions)
    /\ pc' = "done"
    /\ UNCHANGED <<alignVars, logVars, event_ts, response_ts, latencyVars,
                   mergeVars, containerVars, batchVars>>

NextClassify == AddExposureType

SpecClassify == InitClassify /\ [][NextClassify]_vars

\* a row satisfies a filter-set: it has every column the filter-set names
\* and passes the test on each
RowSatisfies(row, filters) ==
    \A col \in DOMAIN filters :
        col \in DOMAIN row /\ filter_test(row[col], filters[col])

\* a row satisfies a filter-set on the columns the log has
RowSatisfiesPresent(row, filters) ==
    \A col \in DOMAIN filters \cap DOMAIN row : filter_test(row[col], filters[col])

\* the label of the first condition of the config whose position is in
\* 'matching', the default label when there is none
FirstLabel(matching) ==
    IF matching = {} THEN DefaultLabel
    ELSE conditions[CHOOSE k \in matching : \A j \in matching : k <= j].label

\* C3 (as stated): every row of the log gets exactly one label, the first
\* label in config order whose filter-set the row satisfies, "no exposure"
\* when it satisfies none; a filter-set names columns the row must have.
FirstMatchWinsStrict ==
    (pc = "done" /\ classified.status = "ok") =>
        /\ Len(classified.exposure_type) = Len(df_physio.rows)
        /\ \A i \in DOMAIN classified.df.rows :
              classified.exposure_type[i] =
                  FirstLabel({ k \in DOMAIN conditions :
                      RowSatisfies(classified.df.rows[i], conditions[k].filters) })

\* C3 (amended): every row of the log gets exactly one label, the first
\* label in config order whose filters on the columns present in the log the
\* row satisfies (cells compared as normalised text), "no exposure" when
\* there is no such label.
FirstMatchWins ==
    (pc = "done" /\ classified.status = "ok") =>
        /\ Len(classified.exposure_type) = Len(df_physio.rows)
        /\ \A i \in DOMAIN classified.df.rows :
              classified.exposure_type[i] =
                  FirstLabel({ k \in DOMAIN conditions :
                      RowSatisfiesPresent(classified.df.rows[i],
                                          conditions[k].filters) })

\* C3 witness: a row that satisfies the different filter-sets of two labels,
\* both on columns of the log, was given the earlier label
FirstMatchWitness ==
    /\ pc = "done"
    /\ classified.status = "ok"
    /\ Len(conditions) = 2
    /\ conditions[1].filters # conditions[2].filters
    /\ \E i \in DOMAIN classified.df.rows :
          /\ \A k \in {1, 2} :
                /\ DOMAIN conditions[k].filters # {}
                /\ DOMAIN conditions[k].filters \subseteq df_physio.columns
                /\ RowSatisfies(classified.df.rows[i], conditions[k].filters)
          /\ classified.exposure_type[i] = conditions[1].label

\* the labels of the config with a filter on a column the log lacks
LabelsWithMissingColumn ==
    { k \in DOMAIN conditions :
        \E col \in DOMAIN conditions[k].filters : col \notin df_physio.columns }

\* C4 (as stated): a label whose filter-set references a column the log
\* lacks is assigned to no row and has match count 0, and classification
\* completes without error.
MissingColumnNeverMatches ==
    (pc = "done" /\ LabelsWithMissingColumn # {}) =>
        /\ classified.status = "ok"
        /\ \A k \in LabelsWithMissingColumn :
              /\ classified.label_match_counts[k] = 0
              /\ \A i \in DOMAIN classified.exposure_type :
                    classified.exposure_type[i] # conditions[k].label

\* C4 (amended): a filter on a column the log lacks is skipped: the label's
\* match count is the number of rows satisfying its filters on the columns
\* the log has (every row when it has none of them), only such rows get the
\* label, and classification completes without error.
MissingColumnSkipped ==
    (pc = "done" /\ LabelsWithMissingColumn # {}) =>
        /\ classified.status = "ok"
        /\ \A k \in LabelsWithMissingColumn :
              LET rows == { i \in DOMAIN classified.df.rows :
                              RowSatisfiesPresent(classified.df.rows[i],
                                                  conditions[k].filters) }
              IN  /\ classified.label_match_counts[k] = Cardinality(rows)
                  /\ \A i \in DOMAIN classified.exposure_type :
                        classified.exposure_type[i] = conditions[k].label
                            => i \in rows

\* C4 witness: a label all of whose filters are on columns the log lacks
\* matched both rows of a two-row log and was assigned to one of them
MissingColumnWitness ==
    /\ pc = "done"
    /\ classified.status = "ok"
    /\ Len(df_physio.rows) = 2
    /\ \E k \in LabelsWithMissingColumn :
          /\ DOMAIN conditions[k].filters \cap df_physio.columns = {}
          /\ classified.label_match_counts[k] = 2
          /\ \E i \in DOMAIN classified.exposure_type :
                classified.exposure_type[i] = conditions[k].label

----------------------------------------------------------------------------
(* Event Extractor, condition onsets: extract_event_timestamps *)

\* Series.unique(): the distinct values in order of first appearance
RECURSIVE unique(_)
unique(s) ==
    IF s = <<>> THEN <<>>
    ELSE LET init == unique(SubSeq(s, 1, Len(s) - 1))
             last == s[Len(s)]
         IN  IF \E k \in DOMAIN init : init[k] = last THEN init
             ELSE Append(init, last)

\* (mutant) the timestamp of the last row of a selection
last_index(rows) == rows[Len(rows)].index

\* .index[0]: the timestamp of the first row of a selection
first_index(rows) == rows[1].index

\* df_physio[df_physio["exposure_type"] != "no exposure"]
valid_rows(rows) == SelectSeq(rows, LAMBDA r : r.exposure_type # DefaultLabel)

\* the result is the dict in insertion order: a sequence of [label, ts]
extract_event_timestamps(df) ==
    LET valid == valid_rows(df.rows)
        labels == unique([i \in DOMAIN valid |-> valid[i].exposure_type])
    IN  IF df.index_dtype # "datetime64"
        THEN [status |-> "ValueError",
              message |-> "df_physio index must be datetime64[ns]."]
        ELSE [status |-> "ok",
              dict |-> [k \in DOMAIN labels |->
                          [label |-> labels[k],
                           ts |-> first_index(
                               SelectSeq(valid,
                                   LAMBDA r : r.exposure_type = labels[k]))]]]

\* a classified log: the exposure_type column over a time index
ClassifiedLog(dtype, ts, labels) ==
    [columns |-> {"exposure_type"},
     index_dtype |-> dtype,
     rows |-> [i \in DOMAIN ts |-> [index |-> ts[i], exposure_type |-> labels[i]]]]

\* the log of the spec's scenario: Forest1 at t = 5, 6, 7 and Forest2 at t = 10
ForestScenario ==
    ClassifiedLog("datetime64", <<5, 6, 7, 10>>,
                  <<"Forest1", "Forest1", "Forest1", "Forest2">>)

OnsetLabels == {DefaultLabel, "Forest1", "Forest2"}

\* the classified logs: the scenario, or a time-sorted log of up to
\* MaxOnsetRows rows over a datetime or a float index
InitOnset ==
    /\ pc = "extract_event_timestamps"
    /\ IdleAlign
    /\ \/ df_physio = ForestScenario
       \/ \E d \in {"datetime64", "float64"} :
            \/ df_physio = ClassifiedLog(d, <<>>, <<>>)
            \/ \E ts \in SortedSeqs(MaxOnsetRows, MaxT) :
                  \E ls \in [1..Len(ts) -> OnsetLabels] :
                      df_physio = ClassifiedLog(d, ts, ls)
    /\ conditions = <<>>
    /\ IdleExtract
    /\ IdleMerge
    /\ IdleContainer
    /\ IdleBatch
    /\ IdleLatency

ExtractEventTimestamps ==
    /\ pc = "extract_event_timestamps"
    /\ event_ts' = extract_event_timestamps(df_physio)
    /\ pc' = "done"
    /\ UNCHANGED <<alignVars, logVars, classified, response_ts, latencyVars,
                   mergeVars, containerVars, batchVars>>

NextOnset == ExtractEventTimestamps

SpecOnset == InitOnset /\ [][NextOnset]_vars

\* the rows of the log that carry a label
RowsWith(label) ==
    { i \in DOMAIN df_physio.rows : df_physio.rows[i].exposure_type = label }

\* C5: for a time-sorted classified log, extract_event_timestamps returns
\* exactly one timestamp for each label other than "no exposure" that occurs
\* on a row, the timestamp of the first row carrying it, and no entry for
\* "no exposure" or for a label on no row; Forest1 at t = 5, 6, 7 and
\* Forest2 at t = 10 give exactly {Forest1: 5, Forest2: 10}.
ConditionOnsetFirstRow ==
    (pc = "done" /\ df_physio.index_dtype = "datetime64") =>
        /\ event_ts.status = "ok"
        /\ { event_ts.dict[k].label : k \in DOMAIN event_ts.dict }
              = { l \in OnsetLabels : RowsWith(l) # {} } \ {DefaultLabel}
        /\ \A j, k \in DOMAIN event_ts.dict :
              event_ts.dict[j].label = event_ts.dict[k].label => j = k
        /\ \A k \in DOMAIN event_ts.dict :
              LET first == CHOOSE i \in RowsWith(event_ts.dict[k].label) :
                              \A j \in RowsWith(event_ts.dict[k].label) : i <= j
              IN  event_ts.dict[k].ts = df_physio.rows[first].index
        /\ df_physio = ForestScenario =>
              event_ts.dict = <<[label |-> "Forest1", ts |-> 5],
                                [label |-> "Forest2", ts |-> 10]>>

\* C5 witness: the onsets of the spec's scenario were extracted
ConditionOnsetWitness ==
    /\ pc = "done"
    /\ df_physio = ForestScenario
    /\ event_ts.status = "ok"
    /\ Len(event_ts.dict) = 2

----------------------------------------------------------------------------
(* Event Extractor, responses: extract_response_timestamps *)

\* cells of the Response_Time column as read from the CSV
Num(v) == [kind |-> "num", v |-> v]
Text == [kind |-> "text", v |-> 0]
Missing == [kind |-> "nan", v |-> 0]

\* pd.to_numeric(..., errors="coerce"): a number stays, anything that is no
\* number becomes NaN
to_numeric(cell) == IF cell.kind = "num" THEN cell ELSE Missing

\* Series.notna() of a to_numeric result
num_notna(cell) == cell.kind = "num"

\* (mutant) a countdown that did not rise counts as a drop
countdown_drop_le(cur, prev) == cur <= prev

\* (mutant) a countdown that rose counts as a drop
countdown_drop_gt(cur, prev) == cur > prev

\* resp_time < resp_time.shift()
countdown_drop(cur, prev) == cur < prev

\* the timer resets: the countdown is numeric on this row and the previous
\* one, dropped, and the Response cell is not null
reset_mask(rows) ==
    LET resp_time == [i \in DOMAIN rows |-> to_numeric(rows[i].Response_Time)]
    IN  [i \in DOMAIN rows |->
            /\ num_notna(resp_time[i])
            /\ i > 1
            /\ num_notna(resp_time[i - 1])
            /\ countdown_drop(resp_time[i].v, resp_time[i - 1].v)
            /\ rows[i].Response # NaN]

\* Series.ffill(): a null cell takes the last non-null value before it
ffill(col) ==
    [i \in DOMAIN col |->
        IF \E j \in 1..i : col[j] # NaN
        THEN col[CHOOSE j \in 1..i :
                    col[j] # NaN /\ \A k \in 1..i : col[k] # NaN => k <= j]
        ELSE NaN]

\* the column grouping the rows into tasks, forward-filled; <<>> when the
\* log has neither column (task_key is None)
task_key(df) ==
    IF "Arithmetic_Task" \in df.columns
    THEN ffill([i \in DOMAIN df.rows |-> df.rows[i].Arithmetic_Task])
    ELSE IF "Task_State" \in df.columns
         THEN ffill([i \in DOMAIN df.rows |-> df.rows[i].Task_State])
         ELSE <<>>

\* task_df.groupby("_task", sort=False).head(1): among the rows with a
\* non-null Response and a non-null task key, the first row of each key
first_per_task(rows, key) ==
    LET task_df == { i \in DOMAIN rows : rows[i].Response # NaN /\ key[i] # NaN }
    IN  { i \in task_df : \A j \in task_df : key[j] = key[i] => i <= j }

\* the fallback without a task column: the first non-null Response overall
first_overall(rows) ==
    LET notna == { i \in DOMAIN rows : rows[i].Response # NaN }
    IN  { i \in notna : \A j \in notna : i <= j }

\* the positions of the candidate rows
candidate_rows(df) ==
    { i \in DOMAIN df.rows : reset_mask(df.rows)[i] }
    \cup (IF {"Arithmetic_Task", "Task_State"} \cap df.columns # {}
          THEN first_per_task(df.rows, task_key(df))
          ELSE first_overall(df.rows))

\* (mutant) the timestamps in descending order
RECURSIVE sort_values_descending(_)
sort_values_descending(S) ==
    IF S = {} THEN <<>>
    ELSE LET m == CHOOSE x \in S : \A y \in S : x >= y
         IN  <<m>> \o sort_values_descending(S \ {m})

\* Index.sort_values() of a set of timestamps
RECURSIVE sort_values(_)
sort_values(S) ==
    IF S = {} THEN <<>>
    ELSE LET m == CHOOSE x \in S : \A y \in S : x <= y
         IN  <<m>> \o sort_values(S \ {m})

\* f"Response_{val}"
response_label(val) ==
    CASE val = "Correct" -> "Response_Correct"
      [] val = "Incorrect" -> "Response_Incorrect"

\* the row a timestamp of the (unique) index designates: resp.loc[ts]
loc(rows, ts) == rows[CHOOSE i \in DOMAIN rows : rows[i].index = ts]

\* the result is the dict in insertion order: a sequence of [label, ts],
\* ts being the list of timestamps of the label
extract_response_timestamps(df) ==
    LET candidate_idx ==
            sort_values({ df.rows[i].index : i \in candidate_rows(df) })
        emitted == SelectSeq(candidate_idx,
                             LAMBDA ts : loc(df.rows, ts).Response # NaN)
        labels == unique([k \in DOMAIN emitted |->
                            response_label(loc(df.rows, emitted[k]).Response)])
    IN  IF ~ ({"Response", "Response_Time"} \subseteq df.columns)
        THEN [status |-> "ok", dict |-> <<>>]
        ELSE IF df.index_dtype # "datetime64"
        THEN [status |-> "ValueError",
              message |-> "df_physio index must be datetime64[ns]."]
        ELSE [status |-> "ok",
              dict |-> [k \in DOMAIN labels |->
                  [label |-> labels[k],
                   ts |-> SelectSeq(emitted,
                            LAMBDA ts :
                              response_label(loc(df.rows, ts).Response)
                                  = labels[k])]]]

RespCells == {NaN, "Correct", "Incorrect"}
TimeCells == {Missing, Text, Num(1), Num(2)}
TaskCells == {NaN, "A", "B"}

\* a log over a unique, increasing time index: row i is stamped i - 1
ResponseLog(cols, dtype, rs) ==
    [columns |-> cols,
     index_dtype |-> dtype,
     rows |-> [i \in DOMAIN rs |-> rs[i] @@ [index |-> i - 1]]]

\* the spec's scenario: countdown 5,4,3,1,9,8,7, outcome Correct on every
\* row, one task block
CountdownScenario ==
    ResponseLog({"Response", "Response_Time", "Arithmetic_Task"}, "datetime64",
        [i \in 1..7 |->
            [Response |-> "Correct",
             Response_Time |-> Num(<<5, 4, 3, 1, 9, 8, 7>>[i]),
             Arithmetic_Task |-> "A"]])

\* the rows of the enumerated logs, by the columns of the log
RowsWithArithmeticTask ==
    [Response : {NaN, "Correct"}, Response_Time : {Missing, Num(1), Num(2)},
     Arithmetic_Task : TaskCells]
RowsWithTaskState ==
    [Response : RespCells, Response_Time : {Num(1), Num(2)},
     Task_State : {NaN, "A"}]
RowsWithoutTask == [Response : RespCells, Response_Time : TimeCells]
RowsWithoutTime == [Response : RespCells]

\* the logs: the scenario, or an enumerated log grouped by Arithmetic_Task,
\* by Task_State, without a task column (over a datetime or a float index),
\* or without the Response_Time column
InitResponse ==
    /\ pc = "extract_response_timestamps"
    /\ IdleAlign
    /\ \/ df_physio = CountdownScenario
       \/ \E n \in 0..MaxRespRows :
            \/ \E rs \in [1..n -> RowsWithArithmeticTask] :
                  df_physio = ResponseLog({"Response", "Response_Time",
                                           "Arithmetic_Task"}, "datetime64", rs)
            \/ \E rs \in [1..n -> RowsWithTaskState] :
                  df_physio = ResponseLog({"Response", "Response_Time",
                                           "Task_State"}, "datetime64", rs)
            \/ \E rs \in [1..n -> RowsWithoutTask] :
                  \E d \in {"datetime64", "float64"} :
                      df_physio = ResponseLog({"Response", "Response_Time"}, d, rs)
            \/ \E rs \in [1..n -> RowsWithoutTime] :
                  df_physio = ResponseLog({"Response"}, "datetime64", rs)
    /\ conditions = <<>>
    /\ IdleExtract
    /\ IdleMerge
    /\ IdleContainer
    /\ IdleBatch
    /\ IdleLatency

ExtractResponseTimestamps ==
    /\ pc = "extract_response_timestamps"
    /\ response_ts' = extract_response_timestamps(df_physio)
    /\ pc' = "done"
    /\ UNCHANGED <<alignVars, logVars, classified, event_ts, latencyVars,
                   mergeVars, containerVars, batchVars>>

NextResponse == ExtractResponseTimestamps

SpecResponse == InitResponse /\ [][NextResponse]_vars

\* the log has the columns and the index the response rules speak of
ResponseLogUsable ==
    /\ {"Response", "Response_Time"} \subseteq df_physio.columns
    /\ df_physio.index_dtype = "datetime64"

\* the countdown of row i is numeric
Numeric(i) == df_physio.rows[i].Response_Time.kind = "num"

\* row i is a reset row: its numeric countdown is strictly below the numeric
\* countdown of the row before it, and its outcome is not null
IsResetRow(i) ==
    /\ i >= 2
    /\ Numeric(i) /\ Numeric(i - 1)
    /\ df_physio.rows[i].Response_Time.v < df_physio.rows[i - 1].Response_Time.v
    /\ df_physio.rows[i].Response # NaN

\* the forward-filled task identifier of every row; one group holding the
\* whole log when the log has no task column
GroupKey ==
    IF {"Arithmetic_Task", "Task_State"} \cap df_physio.columns = {}
    THEN [i \in DOMAIN df_physio.rows |-> "all"]
    ELSE task_key(df_physio)

\* row i is the first row with a non-null outcome among the rows of its
\* task identifier
FirstOfGroup(i) ==
    /\ df_physio.rows[i].Response # NaN
    /\ \A j \in 1..(i - 1) :
          GroupKey[j] = GroupKey[i] => df_physio.rows[j].Response = NaN

\* a response event was emitted at row i, under the label of its outcome
EmittedAt(i) ==
    \E k \in DOMAIN response_ts.dict :
        /\ response_ts.dict[k].label = response_label(df_physio.rows[i].Response)
        /\ \E m \in DOMAIN response_ts.dict[k].ts :
              response_ts.dict[k].ts[m] = df_physio.rows[i].index

\* the instants at which a response event was emitted
EmittedInstants ==
    UNION { { response_ts.dict[k].ts[m] : m \in DOMAIN response_ts.dict[k].ts }
            : k \in DOMAIN response_ts.dict }

FirstOfBlock(i) ==
    /\ GroupKey[i] # NaN
    /\ df_physio.rows[i].Response # NaN
    /\ \A j \in 1..(i - 1) :
          (\A m \in j..i : GroupKey[m] = GroupKey[i])
              => df_physio.rows[j].Response = NaN

\* C7: every task block with a non-null response outcome on some row has a
\* response event at its first such row, with or without a countdown
\* decrease inside the block.
TaskBlockFirstResponse ==
    (/\ pc = "done"
     /\ ResponseLogUsable
     /\ {"Arithmetic_Task", "Task_State"} \cap df_physio.columns # {}) =>
        /\ response_ts.status = "ok"
        /\ \A i \in DOMAIN df_physio.rows : FirstOfBlock(i) => EmittedAt(i)

\* C8 (as stated): countdown 5,4,3,1,9,8,7 with outcome Correct on every row
\* of one task block gives exactly two event instants, the reset at index 3
\* and the first response at index 0.
CountdownScenarioTwoEvents ==
    (pc = "done" /\ df_physio = CountdownScenario) =>
        /\ response_ts.status = "ok"
        /\ EmittedInstants = {0, 3}

\* C8 (amended): the scenario gives exactly six event instants, all labelled
\* Response_Correct: the first response at index 0 and a reset at every index
\* whose countdown is below that of the row before, 1, 2, 3, 5 and 6.
CountdownScenarioEvents ==
    (pc = "done" /\ df_physio = CountdownScenario) =>
        /\ response_ts.status = "ok"
        /\ response_ts.dict =
              <<[label |-> "Response_Correct", ts |-> <<0, 1, 2, 3, 5, 6>>]>>

\* C8 witness: the scenario was processed and the reset at index 3 emitted
CountdownScenarioWitness ==
    /\ pc = "done"
    /\ df_physio = CountdownScenario
    /\ response_ts.status = "ok"
    /\ 3 \in EmittedInstants
    /\ 4 \notin EmittedInstants

----------------------------------------------------------------------------
(* Cross-Clock Timestamp Mapper and Latency Converter *)

\* (mutant) the synthetic sample times are left on the signal's clock
gap_none(eeg_first_dt, physio_first) == 0

\* step 4 of align_timestamps: the offset between the two clocks
gap(eeg_first_dt, physio_first) == eeg_first_dt - physio_first

\* align_timestamps: the synthetic sample times eeg_ts[0] + i / srate,
\* shifted by the gap into the log's clock.  Only the dtype of the log's
\* index is checked; index[0] of an empty log and eeg_ts[0] of an empty
\* signal are IndexErrors.
align_timestamps(df, eeg_data, eeg_ts) ==
    IF df.index_dtype # "datetime64"
    THEN [status |-> "ValueError",
          message |-> "df_physio index must be datetime64[ns]."]
    ELSE IF df.rows = <<>> \/ eeg_ts = <<>>
    THEN [status |-> "IndexError", message |-> "index 0 is out of bounds"]
    ELSE LET physio_first == df.rows[1].index
             eeg_first_dt == eeg_ts[1]
             n_samples == Len(eeg_data)
             eeg_dt == [i \in 1..n_samples |->
                          eeg_first_dt + (i - 1) * TicksPerSample]
         IN  [status |-> "ok",
              timestamps |-> [i \in 1..n_samples |->
                                eeg_dt[i] - gap(eeg_first_dt, physio_first)]]

\* Python's round() of the rational d / TicksPerSample, d >= 0: the nearest
\* integer, a tie going to the even one
py_round(d) ==
    LET q == d \div TicksPerSample
        r == d % TicksPerSample
    IN  IF 2 * r < TicksPerSample THEN q
        ELSE IF 2 * r > TicksPerSample THEN q + 1
        ELSE IF q % 2 = 0 THEN q ELSE q + 1

\* (mutant) the onset is not taken relative to the first sample
delta_absolute(onset_ts, eeg_start) == onset_ts

\* onset_ts - eeg_start, in ticks
delta(onset_ts, eeg_start) == onset_ts - eeg_start

\* (mutant) only an onset before the first sample is outside the span
outside_span_start_only(onset_ts, eeg_start, eeg_end) == onset_ts < eeg_start

\* the span check of an onset
outside_span(onset_ts, eeg_start, eeg_end) ==
    onset_ts < eeg_start \/ onset_ts > eeg_end

\* (mutant) the events are left in the order of the dictionary
sort_by_latency_none(evs) == evs

\* list.sort(key=latency): a stable insertion sort
RECURSIVE sort_by_latency(_)
sort_by_latency(evs) ==
    IF evs = <<>> THEN <<>>
    ELSE LET init == sort_by_latency(SubSeq(evs, 1, Len(evs) - 1))
             e == evs[Len(evs)]
             before == SelectSeq(init, LAMBDA x : x.latency <= e.latency)
             after == SelectSeq(init, LAMBDA x : x.latency > e.latency)
         IN  before \o <<e>> \o after

\* the events of one timestamp list of an exported label, and whether an
\* out-of-span timestamp was met
RECURSIVE convert_timestamps(_, _, _, _)
convert_timestamps(timestamps, event_type, eeg_start, eeg_end) ==
    IF timestamps = <<>> THEN [events |-> <<>>, missing |-> FALSE]
    ELSE LET onset_ts == timestamps[1]
             rest == convert_timestamps(Tail(timestamps), event_type,
                                        eeg_start, eeg_end)
         IN  IF outside_span(onset_ts, eeg_start, eeg_end)
             THEN [events |-> rest.events, missing |-> TRUE]
             ELSE [events |->
                       <<[latency |-> py_round(delta(onset_ts, eeg_start)),
                          type |-> event_type]>> \o rest.events,
                   missing |-> rest.missing]

\* (mutant) response labels are never selected for export
selected_for_export_conditions(exposure, export) ==
    exposure \in DOMAIN export.map /\ exposure # "Response_Correct"

\* 'exposure in export_event_labels', for a list and for a mapping
selected_for_export(exposure, export) == exposure \in DOMAIN export.map

\* the loop over the event dict: entries whose label is not selected for
\* export are skipped
RECURSIVE convert_entries(_, _, _, _)
convert_entries(dict, export, eeg_start, eeg_end) ==
    IF dict = <<>> THEN [events |-> <<>>, missing |-> FALSE]
    ELSE LET exposure == dict[1].label
             rest == convert_entries(Tail(dict), export, eeg_start, eeg_end)
         IN  IF ~ selected_for_export(exposure, export) THEN rest
             ELSE LET event_type ==
                          IF export.is_dict THEN export.map[exposure]
                          ELSE exposure
                      here == convert_timestamps(dict[1].ts, event_type,
                                                 eeg_start, eeg_end)
                  IN  [events |-> here.events \o rest.events,
                       missing |-> here.missing \/ rest.missing]

build_eeg_event_list(dt_aligned, dict, export, ignore) ==
    LET eeg_start == dt_aligned[1]
        eeg_end == dt_aligned[Len(dt_aligned)]
        converted == convert_entries(dict, export, eeg_start, eeg_end)
    IN  IF converted.missing /\ ~ ignore
        THEN [status |-> "ValueError", message |-> "outside EEG span"]
        ELSE [status |-> "ok", events |-> sort_by_latency(converted.events)]

\* the strictly increasing sequences over S of length 0..maxlen
IncreasingSeqs(S, maxlen) ==
    UNION { { s \in [1..n -> S] : \A i \in 1..(n - 1) : s[i] < s[i + 1] }
            : n \in 0..maxlen }

\* the first timestamp of the metadata log in the latency specification
PhysioFirst == 1

\* the timestamps an event may carry around a signal of n samples: from one
\* tick before its first sample to one sample period past its last
EventTimes(n) == (PhysioFirst - 1)..(PhysioFirst + n * TicksPerSample)

\* the merged event dicts {**event_ts, **response_ts}: at most one condition
\* onset (a single timestamp) followed by at most one response label (a list)
EventDicts(n) ==
    { onset \o resp :
        onset \in {<<>>} \cup { <<[label |-> "Forest1", is_list |-> FALSE,
                                   ts |-> <<t>>]>> : t \in EventTimes(n) },
        resp \in {<<>>} \cup { <<[label |-> "Response_Correct", is_list |-> TRUE,
                                  ts |-> l]>>
                               : l \in IncreasingSeqs(EventTimes(n), MaxListLen) } }

\* the export allow-lists: a list of labels, or a mapping label -> code
ExportCode == [l \in {"Forest1", "Response_Correct"} |->
                 IF l = "Forest1" THEN "F1" ELSE "RC"]
ExportLabels ==
    { [is_dict |-> d, map |-> [l \in ls |-> ExportCode[l]]]
      : d \in BOOLEAN, ls \in SUBSET {"Forest1", "Response_Correct"} }

InitLatency ==
    /\ pc = "build_eeg_event_list"
    /\ IdleAlign
    /\ df_physio = NoLog
    /\ conditions = <<>>
    /\ IdleExtract
    /\ IdleMerge
    /\ IdleContainer
    /\ IdleBatch
    /\ \E n \in 1..MaxSamples :
          /\ eeg_dt_aligned \in
                { align_timestamps(
                      ClassifiedLog("datetime64", <<PhysioFirst>>,
                                    <<DefaultLabel>>),
                      [i \in 1..n |-> i], <<ef>>).timestamps
                  : ef \in {0, 5} }
          /\ event_ts_dict \in EventDicts(n)
    /\ export_event_labels \in ExportLabels
    /\ ignore_missing \in BOOLEAN
    /\ event_list = Pending
    /\ aligned_dt = Pending

BuildEegEventList ==
    /\ pc = "build_eeg_event_list"
    /\ event_list' = build_eeg_event_list(eeg_dt_aligned, event_ts_dict,
                                          export_event_labels, ignore_missing)
    /\ pc' = "done"
    /\ UNCHANGED <<alignVars, logVars, extractVars, eeg_dt_aligned,
                   event_ts_dict, export_event_labels, ignore_missing,
                   aligned_dt, mergeVars, containerVars, batchVars>>

NextLatency == BuildEegEventList

SpecLatency == InitLatency /\ [][NextLatency]_vars

SignalStart == eeg_dt_aligned[1]
SignalEnd == eeg_dt_aligned[Len(eeg_dt_aligned)]
NSamples == Len(eeg_dt_aligned)

\* the timestamps of the event dict whose label is selected for export, as
\* <<entry, position in the entry's list>>
ExportedTimestamps ==
    { km \in (DOMAIN event_ts_dict) \X (1..(MaxListLen + 1)) :
        /\ km[2] \in DOMAIN event_ts_dict[km[1]].ts
        /\ event_ts_dict[km[1]].label \in DOMAIN export_event_labels.map }

TimestampOf(km) == event_ts_dict[km[1]].ts[km[2]]

InSpan(t) == SignalStart <= t /\ t <= SignalEnd

\* the event type an exported label is emitted under
ExportedType(km) ==
    IF export_event_labels.is_dict
    THEN export_event_labels.map[event_ts_dict[km[1]].label]
    ELSE event_ts_dict[km[1]].label

Abs(x) == IF x < 0 THEN -x ELSE x

\* round((t - signal_start) * rate): the sample index nearest to t, the even
\* one of the two when t lies half-way between two samples
NearestSample(t) ==
    LET d == t - SignalStart
        cand == 0..(d \div TicksPerSample + 1)
        dist(q) == Abs(q * TicksPerSample - d)
    IN  CHOOSE q \in cand :
            \A p \in cand :
                dist(q) < dist(p) \/ (dist(q) = dist(p) /\ (q = p \/ q % 2 = 0))

\* the returned list holds an event of latency l for the timestamp km
HasEvent(km, l) ==
    \E j \in DOMAIN event_list.events :
        /\ event_list.events[j].latency = l
        /\ event_list.events[j].type = ExportedType(km)

\* C9: every exported event timestamp t with signal_start <= t <= signal_end
\* is mapped to the latency round((t - signal_start) * rate), an integer in
\* [0, n_samples - 1]; a timestamp equal to the signal's last timestamp is
\* kept and yields exactly n_samples - 1.
LatencyBounds ==
    (pc = "done" /\ event_list.status = "ok") =>
        /\ \A j \in DOMAIN event_list.events :
              event_list.events[j].latency \in 0..(NSamples - 1)
        /\ \A km \in ExportedTimestamps :
              InSpan(TimestampOf(km)) => HasEvent(km, NearestSample(TimestampOf(km)))
        /\ \A km \in ExportedTimestamps :
              TimestampOf(km) = SignalEnd => HasEvent(km, NSamples - 1)

\* C9 witness: an exported timestamp equal to the last timestamp of a signal
\* of several samples was kept, at latency n_samples - 1
LatencyBoundsWitness ==
    /\ pc = "done"
    /\ event_list.status = "ok"
    /\ NSamples >= 2
    /\ \E km \in ExportedTimestamps :
          /\ TimestampOf(km) = SignalEnd
          /\ HasEvent(km, NSamples - 1)

\* C10: when an exported event timestamp lies outside [signal_start,
\* signal_end], build_eeg_event_list with ignore_missing=True omits that
\* event and still converts and returns all other events; with
\* ignore_missing=False it raises an error and returns no event list.
OutOfSpanHandling ==
    (/\ pc = "done"
     /\ \E km \in ExportedTimestamps : ~ InSpan(TimestampOf(km))) =>
        IF ignore_missing
        THEN /\ event_list.status = "ok"
             /\ Len(event_list.events)
                   = Cardinality({ km \in ExportedTimestamps :
                                     InSpan(TimestampOf(km)) })
             /\ \A km \in ExportedTimestamps :
                   InSpan(TimestampOf(km))
                       => HasEvent(km, NearestSample(TimestampOf(km)))
        ELSE /\ event_list.status = "ValueError"
             /\ "events" \notin DOMAIN event_list

\* C10 witness: with ignore_missing=True an exported timestamp one sample
\* period past the last sample was omitted and an in-span one converted
OutOfSpanWitness ==
    /\ pc = "done"
    /\ ignore_missing
    /\ event_list.status = "ok"
    /\ Len(event_list.events) = 1
    /\ \E km \in ExportedTimestamps :
          TimestampOf(km) = SignalEnd + TicksPerSample
    /\ \E km \in ExportedTimestamps : InSpan(TimestampOf(km))


\* the entries of the event dict whose label is in the export allow-list
AllowedEntries ==
    { k \in DOMAIN event_ts_dict :
        event_ts_dict[k].label \in DOMAIN export_event_labels.map }

\* the event type the label of entry k is emitted under
TypeOfEntry(k) ==
    IF export_event_labels.is_dict
    THEN export_event_labels.map[event_ts_dict[k].label]
    ELSE event_ts_dict[k].label

\* the in-span timestamps of entry k, by position
InSpanTimestamps(k) ==
    { m \in DOMAIN event_ts_dict[k].ts : InSpan(event_ts_dict[k].ts[m]) }

\* C23: build_eeg_event_list emits an event for a label only if the label
\* is in the export allow-list: every returned event carries the type of an
\* allowed label of the dict, a label outside the allow-list contributes no
\* event whatever its timestamps, and every in-span timestamp of an allowed
\* label contributes exactly one event.
AllowListFilters ==
    (pc = "done" /\ event_list.status = "ok") =>
        /\ \A j \in DOMAIN event_list.events :
              \E k \in AllowedEntries :
                  event_list.events[j].type = TypeOfEntry(k)
        /\ \A k \in AllowedEntries :
              Len(SelectSeq(event_list.events,
                            LAMBDA e : e.type = TypeOfEntry(k)))
                = Cardinality(InSpanTimestamps(k))
        /\ Len(event_list.events) =
              Cardinality({ km \in ExportedTimestamps :
                              InSpan(TimestampOf(km)) })

\* C23 witness: a condition label outside the allow-list with an in-span
\* onset gave no event, while the allowed response label gave one event per
\* in-span timestamp
AllowListFiltersWitness ==
    /\ pc = "done"
    /\ event_list.status = "ok"
    /\ \E k \in DOMAIN event_ts_dict \ AllowedEntries :
          InSpanTimestamps(k) # {}
    /\ \E k \in AllowedEntries :
          /\ Cardinality(InSpanTimestamps(k)) = 2
          /\ Len(event_list.events) = 2

----------------------------------------------------------------------------
(* Channel Normalizer: strip_aux_channels, merge_streams *)

Raise(kind, message) == [status |-> kind, message |-> message]

\* (mutant) only a stream with too few channels is rejected
wrong_channel_count_low(n) == n < RawChannels

\* the guard of strip_aux_channels: data.shape[1] != 66
wrong_channel_count(n) == n # RawChannels

\* strip_aux_channels: data[:, :64] of a 66-channel stream
strip_aux_channels(stream) ==
    IF wrong_channel_count(Len(stream.channels))
    THEN Raise("ValueError", "Expected 66 channels before stripping")
    ELSE [status |-> "ok",
          stream |-> [name |-> stream.name,
                      srate |-> stream.srate,
                      timestamps |-> stream.timestamps,
                      data |-> stream.data,
                      channels |-> Slice(stream.channels, 0, EegChannels),
                      scale |-> stream.scale]]

\* np.concatenate([dataA, dataB], axis=1) of two matrices with as many rows:
\* row i is row i of A followed by row i of B
concatenate_rows(dataA, dataB) ==
    [i \in DOMAIN dataA |-> <<dataA[i], dataB[i]>>]

\* (mutant) the merged time axis taken from the second stream
merged_timestamps_B(sA, sB) == sB.timestamps

\* the time axis of the merged stream
merged_timestamps(sA, sB) == sA.timestamps

\* (mutant) the merged rate taken from the second stream
merged_srate_B(sA, sB) == sB.srate

\* the rate of the merged stream
merged_srate(sA, sB) == sA.srate

merge_streams(sA, sB) ==
    IF Len(sA.data) # Len(sB.data)
    THEN Raise("ValueError", "Stream lengths differ")
    ELSE IF Len(sA.channels) # EegChannels \/ Len(sB.channels) # EegChannels
    THEN Raise("ValueError",
               "Both streams must have 64 channels before merging.")
    ELSE [status |-> "ok",
          stream |-> [srate |-> merged_srate(sA, sB),
                      timestamps |-> merged_timestamps(sA, sB),
                      data |-> concatenate_rows(sA.data, sB.data),
                      channels |-> sA.channels \o sB.channels,
                      scale |-> sA.scale,
                      name |-> <<sA.name, "__", sB.name>>]]

\* most rows of a stream given to the channel normalizer
MaxMergeRows == 2

\* the channel counts of the streams given to the channel normalizer
ChannelCounts == {EegChannels - 1, EegChannels, RawChannels, RawChannels + 1}

\* the streams given to the channel normalizer, sampled every tick from 0
NormalizerStreams(name) ==
    { extract_single_stream(
          XdfStream("EEG", name, "500", [i \in 1..n |-> i - 1], nch))
      : n \in 0..MaxMergeRows, nch \in ChannelCounts }

InitNormalize ==
    /\ pc = "strip_aux_channels"
    /\ streamA \in NormalizerStreams("A")
    /\ streamB \in NormalizerStreams("B")
    /\ aligned = Pending
    /\ df_physio = NoLog
    /\ conditions = <<>>
    /\ IdleExtract
    /\ IdleLatency
    /\ xdf = NoFile
    /\ NoMetadata
    /\ stripped = Pending
    /\ merged = Pending
    /\ IdleContainer
    /\ IdleBatch

StripAuxChannels ==
    /\ pc = "strip_aux_channels"
    /\ stripped' = strip_aux_channels(streamA)
    /\ pc' = "merge_streams"
    /\ UNCHANGED <<alignVars, logVars, extractVars, latencyVars, diskVars,
                   merged, containerVars, batchVars>>

MergeStreams ==
    /\ pc = "merge_streams"
    /\ merged' = merge_streams(streamA, streamB)
    /\ pc' = "done"
    /\ UNCHANGED <<alignVars, logVars, extractVars, latencyVars, diskVars,
                   stripped, containerVars, batchVars>>

NextNormalize == StripAuxChannels \/ MergeStreams

SpecNormalize == InitNormalize /\ [][NextNormalize]_vars

\* the call raised: an error, and no value returned
Raised(outcome) ==
    /\ outcome.status = "ValueError"
    /\ DOMAIN outcome = {"status", "message"}

\* C13: strip_aux_channels raises an error when the stream's channel count
\* is not exactly 66; merge_streams raises an error when either stripped
\* stream's channel count is not 64 or when the two streams' row counts
\* differ.  In each case no merged signal is returned.
ChannelCountGuards ==
    /\ (stripped # Pending /\ Len(streamA.channels) # 66) => Raised(stripped)
    /\ (merged # Pending
        /\ (\/ Len(streamA.channels) # 64
            \/ Len(streamB.channels) # 64
            \/ Len(streamA.data) # Len(streamB.data))) => Raised(merged)

\* C13 witness: a 67-channel stream was rejected by strip_aux_channels, and
\* merge_streams rejected it against a 64-channel stream of as many rows
ChannelCountWitness ==
    /\ pc = "done"
    /\ Len(streamA.channels) = 67
    /\ Len(streamB.channels) = 64
    /\ Len(streamA.data) = Len(streamB.data)
    /\ Len(streamA.data) >= 1
    /\ Raised(stripped)
    /\ Raised(merged)

----------------------------------------------------------------------------
(* Stream selection and merging: load_and_merge *)

\* most signal streams a recording may hold
MaxEegStreams == 2

\* load_xdf: the parsed streams of an existing, non-empty recording
load_xdf(file) ==
    IF ~ file.exists THEN Raise("FileNotFoundError", "XDF file not found")
    ELSE IF file.streams = <<>>
    THEN Raise("ValueError", "No streams found in XDF file")
    ELSE [status |-> "ok", streams |-> file.streams]

\* find_eeg_streams: the streams of type EEG, in file order
find_eeg_streams(xdf_streams) ==
    LET eeg_streams == SelectSeq(xdf_streams, LAMBDA st : st.info.type = "EEG")
    IN  IF Len(eeg_streams) = 0
        THEN Raise("ValueError", "No EEG streams found in the XDF file.")
        ELSE IF Len(eeg_streams) > MaxEegStreams
        THEN Raise("ValueError", "Expected at most 2 EEG streams")
        ELSE [status |-> "ok", streams |-> eeg_streams]

\* eegA, eegB = <list>: Python's unpacking of a list into two names
unpack_pair(list) ==
    IF Len(list) < 2
    THEN Raise("ValueError", "not enough values to unpack (expected 2)")
    ELSE IF Len(list) > 2
    THEN Raise("ValueError", "too many values to unpack (expected 2)")
    ELSE [status |-> "ok", first |-> list[1], second |-> list[2]]

\* load_and_merge: load, select, extract, align, strip and merge; the first
\* step that raises ends the call
load_and_merge(file) ==
    LET loaded == load_xdf(file)
        found == find_eeg_streams(loaded.streams)
        pair == unpack_pair(found.streams)
        A == extract_single_stream(pair.first)
        B == extract_single_stream(pair.second)
        both == align_streams(A, B)
        A_clean == strip_aux_channels(both.A)
        B_clean == strip_aux_channels(both.B)
    IN  IF loaded.status # "ok" THEN loaded
        ELSE IF found.status # "ok" THEN found
        ELSE IF pair.status # "ok" THEN pair
        ELSE IF both.status # "ok" THEN both
        ELSE IF A_clean.status # "ok" THEN A_clean
        ELSE IF B_clean.status # "ok" THEN B_clean
        ELSE merge_streams(A_clean.stream, B_clean.stream)

\* latest first timestamp (ticks) of a signal stream of a recording
MaxStart == 1
\* most samples of a signal stream of a recording
MaxLoadLen == 3

\* the signal streams of a recording, in file order: their names and rates
StreamNames == <<"A", "B", "C">>
StreamRates == <<"500", "250", "500">>

\* the event-marker stream of a recording
MarkerStream == XdfStream("Markers", "M", "0", <<0>>, 1)

\* the shapes of a signal stream: first timestamp, samples, channels
StreamShapes ==
    [start : 0..MaxStart, n : 1..MaxLoadLen, nch : {RawChannels, EegChannels}]

\* a signal stream sampled every TicksPerSample ticks
EegStream(i, shape) ==
    XdfStream("EEG", StreamNames[i], StreamRates[i],
              [j \in 1..shape.n |-> shape.start + (j - 1) * TicksPerSample],
              shape.nch)

InitLoad ==
    /\ pc = "load_and_merge"
    /\ IdleAlign
    /\ df_physio = NoLog
    /\ conditions = <<>>
    /\ IdleExtract
    /\ IdleLatency
    /\ NoMetadata
    /\ \/ xdf = NoFile
       \/ \E k \in 0..(MaxEegStreams + 1), marker \in BOOLEAN :
            \E shapes \in [1..k -> StreamShapes] :
               xdf = [exists |-> TRUE,
                      streams |-> (IF marker THEN <<MarkerStream>> ELSE <<>>)
                                  \o [i \in 1..k |-> EegStream(i, shapes[i])]]
    /\ stripped = Pending
    /\ merged = Pending
    /\ IdleContainer
    /\ IdleBatch

LoadAndMerge ==
    /\ pc = "load_and_merge"
    /\ merged' = load_and_merge(xdf)
    /\ pc' = "done"
    /\ UNCHANGED <<alignVars, logVars, extractVars, latencyVars, diskVars,
                   stripped, containerVars, batchVars>>

NextLoad == LoadAndMerge

SpecLoad == InitLoad /\ [][NextLoad]_vars

\* the signal streams of the recording, in file order
EegInputs == SelectSeq(xdf.streams, LAMBDA st : st.info.type = "EEG")

\* the rate a nominal-rate string denotes
RateValue(str) == IF str = "500" THEN 500 ELSE IF str = "250" THEN 250 ELSE 0

\* C14: when load_and_merge succeeds, the merged signal has n rows and
\* exactly 128 columns, with columns 0..63 equal to stream A's first 64
\* channels and columns 64..127 equal to stream B's first 64 channels; its
\* timestamps are stream A's trimmed timestamps of length n; its sampling
\* rate is stream A's.
MergedSignalShape ==
    (pc = "done" /\ merged.status = "ok") =>
        LET A == EegInputs[1]
            B == EegInputs[2]
            m == merged.stream
            n == Len(m.data)
        IN  /\ Len(m.channels) = 128
            /\ \A j \in 1..64 :
                  /\ m.channels[j] = <<A.info.name, j>>
                  /\ m.channels[64 + j] = <<B.info.name, j>>
            /\ \A i \in 1..n :
                  /\ m.data[i][1] \in DOMAIN A.time_series
                  /\ m.data[i][2] \in DOMAIN B.time_series
            /\ \A i \in 1..(n - 1) :
                  /\ m.data[i + 1][1] = m.data[i][1] + 1
                  /\ m.data[i + 1][2] = m.data[i][2] + 1
            /\ Len(m.timestamps) = n
            /\ \A i \in 1..n : m.timestamps[i] = A.time_stamps[m.data[i][1]]
            /\ m.srate = RateValue(A.info.nominal_srate)

\* C14 witness: two streams on different clocks and of different rates were
\* merged into a signal of at least one row
MergedSignalWitness ==
    /\ pc = "done"
    /\ merged.status = "ok"
    /\ Len(merged.stream.data) >= 1
    /\ Len(merged.stream.channels) = 128
    /\ EegInputs[1].time_stamps[1] # EegInputs[2].time_stamps[1]
    /\ merged.stream.timestamps[1]
         # EegInputs[2].time_stamps[merged.stream.data[1][2]]
    /\ EegInputs[1].info.nominal_srate # EegInputs[2].info.nominal_srate

\* the failures of load_and_merge that are not about the number of streams
OtherFailures ==
    {"Streams do not overlap in time.",
     "Expected 66 channels before stripping"}

\* C19: stream selection raises an error when the recording contains zero
\* EEG-type streams and when it contains more than two; a recording with
\* exactly one or exactly two EEG-type streams is accepted: load_and_merge
\* does not fail on the stream count for either.
StreamCountAccepted ==
    (pc = "done" /\ xdf.exists /\ xdf.streams # <<>>) =>
        /\ (Len(EegInputs) = 0 \/ Len(EegInputs) > 2) => Raised(merged)
        /\ Len(EegInputs) \in {1, 2} =>
              \/ merged.status = "ok"
              \/ merged.message \in OtherFailures

----------------------------------------------------------------------------
(* Container Builder: build_eeglab_struct *)

\* a rational number num / den, den > 0
Ratio(num, den) == [num |-> num, den |-> den]

\* (mutant) keys of the template win over the computed fields
dict_spread_template_last(base, over) == base @@ over

\* {**base, key: value, ...}: the keys listed after the spread win
dict_spread(base, over) == over @@ base

\* data.T.astype(np.float32): the matrix by its axes, channels first, and
\* its element type
transpose_float32(stream) ==
    [rows |-> stream.channels, cols |-> stream.data, scale |-> stream.scale,
     dtype |-> "float32"]

\* (np.arange(pnts) / srate) * 1000 * 1000, as exact rationals
times_axis(pnts, srate) ==
    [i \in 1..pnts |-> Ratio((i - 1) * 1000 * 1000, srate)]

\* build_eeglab_struct; names and tmpl are what it reads from
\* config/eeg_metadata.yaml (channel_names) and config/eeglab_template.yaml
build_eeglab_struct(merged_stream, names, tmpl) ==
    LET data_ch_by_time == transpose_float32(merged_stream)
        srate == merged_stream.srate
        nbchan == Len(data_ch_by_time.rows)
        pnts == Len(data_ch_by_time.cols)
        times == times_axis(pnts, srate)
        chanlocs == [i \in DOMAIN names |-> [labels |-> names[i]]]
    IN  IF Len(names) # nbchan
        THEN Raise("ValueError", "Expected nbchan channel names")
        ELSE [status |-> "ok",
              struct |-> dict_spread(tmpl,
                  [nbchan |-> nbchan,
                   trials |-> 1,
                   pnts |-> pnts,
                   srate |-> srate,
                   xmin |-> Ratio(0, 1),
                   xmax |-> Ratio(pnts - 1, srate),
                   times |-> times,
                   data |-> data_ch_by_time,
                   chanlocs |-> chanlocs])]

\* a merged signal of n samples at the given rate, its first sample at t0
MergedSignal(n, rate, t0) ==
    merge_streams(
        [name |-> "A", srate |-> rate, scale |-> 1000,
         timestamps |-> [i \in 1..n |-> t0 + (i - 1) * TicksPerSample],
         data |-> [i \in 1..n |-> i],
         channels |-> [c \in 1..EegChannels |-> <<"A", c>>]],
        [name |-> "B", srate |-> rate, scale |-> 1000,
         timestamps |-> [i \in 1..n |-> t0 + (i - 1) * TicksPerSample],
         data |-> [i \in 1..n |-> i],
         channels |-> [c \in 1..EegChannels |-> <<"B", c>>]])

\* the sampling rates (Hz) of the signals given to the container builder
Rates == {250, 500}

\* the configured channel names: k labels
ChannelNames(k) == [i \in 1..k |-> <<"label", i>>]

\* the values the template file may hold for a field the builder computes
TemplateValues == {0, 1, 2}

\* the template files: defaults for descriptive fields, with or without
\* values for nbchan, trials and pnts
Templates ==
    {[setname |-> "", comments |-> "template"]}
    \cup { [setname |-> "", comments |-> "template",
            nbchan |-> a, trials |-> b, pnts |-> c]
           : a \in TemplateValues, b \in TemplateValues, c \in TemplateValues }

InitContainer ==
    /\ pc = "build_eeglab_struct"
    /\ IdleAlign
    /\ df_physio = NoLog
    /\ conditions = <<>>
    /\ IdleExtract
    /\ IdleLatency
    /\ xdf = NoFile
    /\ NoMetadata
    /\ stripped = Pending
    /\ \E n \in 0..MaxSamples, rate \in Rates : merged = MergedSignal(n, rate, 0)
    /\ \E k \in {2 * EegChannels - 1, 2 * EegChannels, 2 * EegChannels + 1} :
          channel_names = ChannelNames(k)
    /\ template \in Templates
    /\ EEG = Pending
    /\ set_file = Absent
    /\ IdleBatch

BuildEeglabStruct ==
    /\ pc = "build_eeglab_struct"
    /\ EEG' = build_eeglab_struct(merged.stream, channel_names, template)
    /\ pc' = "done"
    /\ UNCHANGED <<alignVars, logVars, extractVars, latencyVars, mergeVars,
                   channel_names, template, set_file, batchVars>>

NextContainer == BuildEeglabStruct

SpecContainer == InitContainer /\ [][NextContainer]_vars

\* C15: build_eeglab_struct raises an error when the number of configured
\* channel names differs from the data's channel count; otherwise the
\* container it returns has nbchan = number of channel labels = number of
\* data rows, pnts = number of data columns = length of the time axis, and
\* trials = 1, regardless of the values in the template file.
ContainerDimensions ==
    pc = "done" =>
        IF Len(channel_names) # Len(merged.stream.channels)
        THEN Raised(EEG)
        ELSE /\ EEG.status = "ok"
             /\ EEG.struct.nbchan = Len(EEG.struct.chanlocs)
             /\ EEG.struct.nbchan = Len(EEG.struct.data.rows)
             /\ EEG.struct.nbchan = Len(merged.stream.channels)
             /\ EEG.struct.pnts = Len(EEG.struct.data.cols)
             /\ EEG.struct.pnts = Len(EEG.struct.times)
             /\ EEG.struct.pnts = Len(merged.stream.data)
             /\ EEG.struct.trials = 1

\* C15 witness: a container was built from a template whose nbchan, trials
\* and pnts all differ from the signal's
ContainerDimensionsWitness ==
    /\ pc = "done"
    /\ EEG.status = "ok"
    /\ "nbchan" \in DOMAIN template
    /\ template.nbchan # EEG.struct.nbchan
    /\ template.trials # 1
    /\ template.pnts # EEG.struct.pnts
    /\ EEG.struct.pnts >= 2
    /\ EEG.struct.comments = "template"

\* C16: the container's time axis satisfies times[i] = i / rate * 1000
\* milliseconds for i = 0..pnts-1 (at 500 Hz, times[i] = 2*i), so
\* times[0] = 0 and times[pnts-1] = 1000 * xmax.
TimeAxisMilliseconds ==
    (pc = "done" /\ EEG.status = "ok") =>
        LET E == EEG.struct
        IN  /\ \A i \in 0..(E.pnts - 1) :
                  /\ E.times[i + 1].num * E.srate
                        = i * 1000 * E.times[i + 1].den
                  /\ E.srate = 500 =>
                        E.times[i + 1].num = 2 * i * E.times[i + 1].den
            /\ E.pnts >= 1 =>
                  /\ E.times[1].num = 0
                  /\ E.times[E.pnts].num * E.xmax.den
                        = 1000 * E.xmax.num * E.times[E.pnts].den

----------------------------------------------------------------------------
(* Cross-Clock Timestamp Mapper: align_timestamps *)

\* the first timestamps (ticks, on the recording's clock) of the signals
\* given to the timestamp mapper
SignalStarts == {0, 5}

InitMapper ==
    /\ pc = "align_timestamps"
    /\ IdleAlign
    /\ \E d \in {"datetime64", "float64"} :
          \E ts \in SeqsOf(0..MaxT, 0, MaxOnsetRows) :
              df_physio = ClassifiedLog(d, ts, [i \in DOMAIN ts |-> DefaultLabel])
    /\ conditions = <<>>
    /\ IdleExtract
    /\ IdleLatency
    /\ xdf = NoFile
    /\ NoMetadata
    /\ stripped = Pending
    /\ \E n \in 0..MaxSamples, t0 \in SignalStarts :
          merged = MergedSignal(n, 500, t0)
    /\ IdleContainer
    /\ IdleBatch

AlignTimestamps ==
    /\ pc = "align_timestamps"
    /\ aligned_dt' = align_timestamps(df_physio, merged.stream.data,
                                      merged.stream.timestamps)
    /\ pc' = "done"
    /\ UNCHANGED <<alignVars, logVars, extractVars, eeg_dt_aligned,
                   event_ts_dict, export_event_labels, ignore_missing,
                   event_list, mergeVars, containerVars, batchVars>>

NextMapper == AlignTimestamps

SpecMapper == InitMapper /\ [][NextMapper]_vars

\* the first timestamp of the metadata log
MetadataFirst == df_physio.rows[1].index

\* C17: for a signal of n samples at rate r, align_timestamps returns
\* exactly n timestamps with aligned[i] = (signal_first + i/r) - gap where
\* gap = signal_first - metadata_first, i.e. aligned[i] = metadata_first +
\* i/r: aligned[0] equals the metadata log's first timestamp, the sequence is
\* strictly increasing with constant step 1/r, and the result does not
\* depend on the signal's absolute first timestamp.
AlignedToMetadataClock ==
    (pc = "done" /\ aligned_dt.status = "ok") =>
        LET n == Len(merged.stream.data)
            a == aligned_dt.timestamps
        IN  /\ Len(a) = n
            /\ \A i \in 0..(n - 1) :
                  a[i + 1] = MetadataFirst + i * TicksPerSample
            /\ n >= 1 => a[1] = MetadataFirst
            /\ \A i \in 1..(n - 1) :
                  a[i] < a[i + 1] /\ a[i + 1] - a[i] = TicksPerSample

\* C17 witness: a signal of several samples whose first timestamp differs
\* from the log's was mapped onto the log's clock
AlignedToMetadataClockWitness ==
    /\ pc = "done"
    /\ aligned_dt.status = "ok"
    /\ Len(aligned_dt.timestamps) >= 2
    /\ merged.stream.timestamps[1] > MetadataFirst
    /\ aligned_dt.timestamps[1] = MetadataFirst

\* the log's clock index is monotonically non-decreasing
MonotonicIndex ==
    \A i \in 1..(Len(df_physio.rows) - 1) :
        df_physio.rows[i].index <= df_physio.rows[i + 1].index

\* C18: if the metadata log's clock index is not an absolute datetime type,
\* or is not monotonically non-decreasing, the timestamp-mapping step fails
\* with a fatal input error instead of returning aligned timestamps, and no
\* events are derived from that log.
LogClockPrecondition ==
    (/\ pc = "done"
     /\ df_physio.index_dtype # "datetime64" \/ ~ MonotonicIndex) =>
        /\ aligned_dt.status \in {"ValueError", "IndexError"}
        /\ "timestamps" \notin DOMAIN aligned_dt

----------------------------------------------------------------------------
(* Persistence: add_events_to_eeg_struct, save_set, and the tail of       *)
(* xdf_to_set that runs them (steps 7 to 10)                              *)

\* (mutant) the latency is attached as the 0-based sample index
one_based_unshifted(latency) == latency

\* int(ev["latency"]) + 1: the 1-based sample index EEGLAB expects
one_based(latency) == latency + 1

\* add_events_to_eeg_struct: a copy of the container with its event field
\* set to one struct per event, in the order of the list
add_events_to_eeg_struct(E, events) ==
    [event |-> [i \in DOMAIN events |->
                  [latency |-> one_based(events[i].latency),
                   type |-> events[i].type,
                   duration |-> 0]]] @@ E

\* the output path of the conversion
OutputPath == [parent |-> "output/sets", stem |-> "P01", suffix |-> ""]

\* save_set: the container written under the key EEG to the output path,
\* whose suffix defaults to .set; the file replaces whatever was there
save_set(eeg_struct, output_path) ==
    [exists |-> TRUE,
     path |-> [output_path EXCEPT
                 !.suffix = IF @ = "" THEN ".set" ELSE @],
     content |-> [EEG |-> eeg_struct]]

\* a file left at the output path by an earlier conversion
OldFile == [exists |-> TRUE, path |-> [OutputPath EXCEPT !.suffix = ".set"],
            content |-> [EEG |-> [setname |-> "previous"]]]

\* (mutant) the conversion goes on after a step that raised
after_unchecked(outcome, next) == next

\* the position of xdf_to_set after a step: an exception raised by the step
\* propagates out of xdf_to_set, and no later statement runs
after(outcome, next) == IF outcome.status = "ok" THEN next ELSE "raised"

\* step 7 of xdf_to_set: build_eeg_event_list with the default
\* ignore_missing
ConvertEvents ==
    /\ pc = "7:build_eeg_event_list"
    /\ event_list' = build_eeg_event_list(eeg_dt_aligned, event_ts_dict,
                                          export_event_labels, TRUE)
    /\ pc' = after(event_list', "8:build_eeglab_struct")
    /\ UNCHANGED <<alignVars, logVars, extractVars, eeg_dt_aligned,
                   event_ts_dict, export_event_labels, ignore_missing,
                   aligned_dt, mergeVars, containerVars, batchVars>>

\* step 8 of xdf_to_set: build_eeglab_struct, then add_events_to_eeg_struct
BuildContainer ==
    /\ pc = "8:build_eeglab_struct"
    /\ LET built == build_eeglab_struct(merged.stream, channel_names, template)
       IN  /\ EEG' = IF built.status # "ok" THEN built
                       ELSE [status |-> "ok",
                             struct |-> add_events_to_eeg_struct(
                                            built.struct, event_list.events)]
           /\ pc' = after(built, "9:save_set")
    /\ UNCHANGED <<alignVars, logVars, extractVars, latencyVars, mergeVars,
                   channel_names, template, set_file, batchVars>>

\* steps 9 and 10 of xdf_to_set: the file's names are set, then save_set
SaveSet ==
    /\ pc = "9:save_set"
    /\ LET named == [setname |-> OutputPath.stem,
                     filename |-> <<OutputPath.stem, OutputPath.suffix>>,
                     filepath |-> OutputPath.parent] @@ EEG.struct
       IN  /\ EEG' = [EEG EXCEPT !.struct = named]
           /\ set_file' = save_set(named, OutputPath)
    /\ pc' = "saved"
    /\ UNCHANGED <<alignVars, logVars, extractVars, latencyVars, mergeVars,
                   channel_names, template, batchVars>>

\* the template file of the persistence specification
PlainTemplate == [setname |-> "", comments |-> "template"]

InitPersist ==
    /\ pc = "7:build_eeg_event_list"
    /\ IdleAlign
    /\ df_physio = NoLog
    /\ conditions = <<>>
    /\ IdleExtract
    /\ \E n \in 1..MaxSamples :
          /\ merged = MergedSignal(n, 500, 0)
          /\ eeg_dt_aligned =
                align_timestamps(
                    ClassifiedLog("datetime64", <<PhysioFirst>>,
                                  <<DefaultLabel>>),
                    merged.stream.data, merged.stream.timestamps).timestamps
          /\ event_ts_dict \in EventDicts(n)
    /\ export_event_labels \in
          { e \in ExportLabels : DOMAIN e.map = DOMAIN ExportCode }
    /\ ignore_missing = TRUE
    /\ event_list = Pending
    /\ aligned_dt = Pending
    /\ xdf = NoFile
    /\ NoMetadata
    /\ stripped = Pending
    /\ channel_names = ChannelNames(2 * EegChannels)
    /\ template = PlainTemplate
    /\ EEG = Pending
    /\ set_file \in {Absent, OldFile}
    /\ IdleBatch

NextPersist == ConvertEvents \/ BuildContainer \/ SaveSet

SpecPersist == InitPersist /\ [][NextPersist]_vars

\* a sequence of events is non-decreasing in latency
NonDecreasing(evs) ==
    \A i \in 1..(Len(evs) - 1) : evs[i].latency <= evs[i + 1].latency

\* C11: for any event dictionary mixing single condition-onset timestamps
\* and lists of response timestamps, the list returned by
\* build_eeg_event_list is non-decreasing in latency, and
\* add_events_to_eeg_struct preserves that order, so the container's event
\* array is non-decreasing in latency.
EventsNonDecreasing ==
    /\ event_list.status = "ok" => NonDecreasing(event_list.events)
    /\ EEG.status = "ok" =>
          /\ NonDecreasing(EEG.struct.event)
          /\ [i \in DOMAIN EEG.struct.event |-> EEG.struct.event[i].type]
                = [i \in DOMAIN event_list.events |->
                     event_list.events[i].type]

\* C11 witness: a response that precedes the condition onset in time, and
\* follows it in the dictionary, was ordered before it in the container
EventsNonDecreasingWitness ==
    /\ EEG.status = "ok"
    /\ Len(event_ts_dict) = 2
    /\ Len(event_ts_dict[2].ts) = 2
    /\ event_ts_dict[2].ts[1] + TicksPerSample <= event_ts_dict[1].ts[1]
    /\ Len(EEG.struct.event) = 3
    /\ EEG.struct.event[1].latency < EEG.struct.event[3].latency
    /\ EEG.struct.event[1].type # EEG.struct.event[3].type

\* C12: on the path from latency conversion to the persisted file, the +1
\* shift to 1-based indexing is applied exactly once: build_eeg_event_list
\* produces 0-based latencies, add_events_to_eeg_struct outputs for each
\* input event an event with latency = input latency + 1 (same count, order
\* and type, duration 0), and save_set applies no further shift, so every
\* persisted latency lies in [1, pnts].
ShiftAppliedOnce ==
    /\ event_list.status = "ok" =>
          /\ \A i \in DOMAIN event_list.events :
                event_list.events[i].latency \in 0..(NSamples - 1)
          /\ \A km \in ExportedTimestamps :
                TimestampOf(km) = SignalStart => HasEvent(km, 0)
    /\ EEG.status = "ok" =>
          /\ Len(EEG.struct.event) = Len(event_list.events)
          /\ \A i \in DOMAIN EEG.struct.event :
                /\ EEG.struct.event[i].latency
                      = event_list.events[i].latency + 1
                /\ EEG.struct.event[i].type = event_list.events[i].type
                /\ EEG.struct.event[i].duration = 0
    /\ pc = "saved" =>
          LET persisted == set_file.content.EEG
          IN  /\ Len(persisted.event) = Len(event_list.events)
              /\ \A i \in DOMAIN persisted.event :
                    /\ persisted.event[i].latency
                          = event_list.events[i].latency + 1
                    /\ persisted.event[i].latency \in 1..persisted.pnts

\* C12 witness: events at the first and at the last sample of a signal of
\* several samples were persisted at latencies 1 and pnts
ShiftAppliedOnceWitness ==
    /\ pc = "saved"
    /\ set_file.content.EEG.pnts >= 2
    /\ \E i \in DOMAIN set_file.content.EEG.event :
          set_file.content.EEG.event[i].latency = 1
    /\ \E i \in DOMAIN set_file.content.EEG.event :
          set_file.content.EEG.event[i].latency = set_file.content.EEG.pnts

----------------------------------------------------------------------------
(* The single-file conversion: xdf_to_set *)

\* step 1 of xdf_to_set
LoadSignal ==
    /\ pc = "1:load_and_merge"
    /\ merged' = load_and_merge(xdf)
    /\ pc' = after(merged', "3:read_csv")
    /\ UNCHANGED <<alignVars, logVars, extractVars, latencyVars, diskVars,
                   stripped, containerVars, batchVars>>

\* steps 2 and 3 of xdf_to_set: the metadata log is looked up and read,
\* then the condition config; a missing file is a FileNotFoundError
read_metadata(csv, yaml) ==
    IF ~ csv.exists
    THEN Raise("FileNotFoundError", "Physio metadata not provided")
    ELSE IF ~ yaml.exists
    THEN Raise("FileNotFoundError", "No such file: conditions.yaml")
    ELSE [status |-> "ok", columns |-> csv.log.columns, rows |-> csv.log.rows]

ReadMetadata ==
    /\ pc = "3:read_csv"
    /\ df_physio' = read_metadata(physio_csv, config_yaml)
    /\ IF df_physio'.status = "ok"
       THEN /\ conditions' = config_yaml.conditions
            /\ export_event_labels' = config_yaml.export_event_labels
       ELSE UNCHANGED <<conditions, export_event_labels>>
    /\ pc' = after(df_physio', "4:add_exposure_type_from_config")
    /\ UNCHANGED <<alignVars, extractVars, eeg_dt_aligned, event_ts_dict,
                   ignore_missing, event_list, aligned_dt, mergeVars,
                   containerVars, batchVars>>

\* step 4 of xdf_to_set after the classification: the exposure_type column
\* is added, LSL_Timestamp is converted with pd.to_datetime(unit="s") and
\* becomes the index
set_index(labelled) ==
    LET df == labelled.df
        cols == (df.columns \ {"LSL_Timestamp"}) \cup {"exposure_type"}
    IN  IF "LSL_Timestamp" \notin df.columns
        THEN Raise("KeyError", "LSL_Timestamp")
        ELSE IF \E i \in DOMAIN df.rows : df.rows[i].LSL_Timestamp.kind = "text"
        THEN Raise("ValueError", "non convertible value with the unit 's'")
        ELSE [status |-> "ok",
              label_match_counts |-> labelled.label_match_counts,
              df |-> [columns |-> cols,
                      index_dtype |-> "datetime64",
                      rows |-> [i \in DOMAIN df.rows |->
                          [c \in cols \cup {"index"} |->
                              IF c = "index" THEN df.rows[i].LSL_Timestamp.v
                              ELSE IF c = "exposure_type"
                              THEN labelled.exposure_type[i]
                              ELSE df.rows[i][c]]]]]

Classify ==
    /\ pc = "4:add_exposure_type_from_config"
    /\ LET labelled == add_exposure_type_from_config(df_physio, conditions)
       IN  classified' = IF labelled.status = "ok" THEN set_index(labelled)
                         ELSE labelled
    /\ pc' = after(classified', "5:align_timestamps")
    /\ UNCHANGED <<alignVars, logVars, event_ts, response_ts, latencyVars,
                   mergeVars, containerVars, batchVars>>

\* step 5 of xdf_to_set
MapTimestamps ==
    /\ pc = "5:align_timestamps"
    /\ aligned_dt' = align_timestamps(classified.df, merged.stream.data,
                                      merged.stream.timestamps)
    /\ eeg_dt_aligned' = IF aligned_dt'.status = "ok"
                         THEN aligned_dt'.timestamps ELSE eeg_dt_aligned
    /\ pc' = after(aligned_dt', "6:extract_event_timestamps")
    /\ UNCHANGED <<alignVars, logVars, extractVars, event_ts_dict,
                   export_event_labels, ignore_missing, event_list,
                   mergeVars, containerVars, batchVars>>

\* {**event_ts, **response_ts}: the keys of the first dict in their order,
\* a key of both taking the value of the second, then the other keys of
\* the second
dict_merge(first, second) ==
    LET overridden(l) == \E k \in DOMAIN second : second[k].label = l
        value(l) == second[CHOOSE k \in DOMAIN second : second[k].label = l]
    IN  [i \in DOMAIN first |->
            IF overridden(first[i].label) THEN value(first[i].label)
            ELSE first[i]]
        \o SelectSeq(second,
                     LAMBDA e : \A i \in DOMAIN first : first[i].label # e.label)

\* step 6 of xdf_to_set: the condition onsets (single timestamps) and the
\* responses (lists of timestamps), merged into one dict
ExtractEvents ==
    /\ pc = "6:extract_event_timestamps"
    /\ event_ts' = extract_event_timestamps(classified.df)
    /\ response_ts' = IF event_ts'.status = "ok"
                      THEN extract_response_timestamps(classified.df)
                      ELSE response_ts
    /\ event_ts_dict' =
          IF event_ts'.status = "ok" /\ response_ts'.status = "ok"
          THEN dict_merge(
                   [i \in DOMAIN event_ts'.dict |->
                      [label |-> event_ts'.dict[i].label, is_list |-> FALSE,
                       ts |-> <<event_ts'.dict[i].ts>>]],
                   [i \in DOMAIN response_ts'.dict |->
                      [label |-> response_ts'.dict[i].label, is_list |-> TRUE,
                       ts |-> response_ts'.dict[i].ts]])
          ELSE event_ts_dict
    /\ pc' = IF event_ts'.status = "ok"
             THEN after(response_ts', "7:build_eeg_event_list")
             ELSE after(event_ts', "7:build_eeg_event_list")
    /\ UNCHANGED <<alignVars, logVars, classified, eeg_dt_aligned,
                   export_event_labels, ignore_missing, event_list,
                   aligned_dt, mergeVars, containerVars, batchVars>>

\* a recording of the given signal streams
Recording(streams) == [exists |-> TRUE, streams |-> streams]

\* the recordings given to the conversion: none, an empty one, one with a
\* marker stream only, with one, two or three signal streams; the first
\* stream has 1 or MaxLoadLen samples and 66 or 64 channels
PipelineRecordings ==
    {NoFile, Recording(<<>>), Recording(<<MarkerStream>>)}
    \cup { Recording(<<MarkerStream, EegStream(1, a)>> \o rest)
           : a \in [start : {0}, n : {1, MaxLoadLen},
                    nch : {RawChannels, EegChannels}],
             rest \in {<<>>}
                \cup { <<EegStream(2, b)>>
                       : b \in [start : 0..MaxStart, n : {MaxLoadLen},
                                nch : {RawChannels}] }
                \cup { <<EegStream(2, b), EegStream(3, b)>>
                       : b \in [start : {0}, n : {MaxLoadLen},
                                nch : {RawChannels}] } }

\* a metadata log file: row i is stamped PhysioFirst + i - 1 ticks and holds
\* a countdown that drops on every row
PipelineLog(cells) ==
    [exists |-> TRUE,
     log |-> [columns |-> {"LSL_Timestamp", "Shown_Scene", "Response",
                           "Response_Time"},
              rows |-> [i \in DOMAIN cells |->
                          [LSL_Timestamp |-> Num(PhysioFirst + i - 1),
                           Shown_Scene |-> cells[i].Shown_Scene,
                           Response |-> cells[i].Response,
                           Response_Time |-> Num(MaxRows + 1 - i)]]]]

\* the condition config files: without conditions, or with the Forest1
\* condition and an export allow-list given as a mapping or as a list
PipelineConfigs ==
    {[exists |-> TRUE, conditions |-> <<>>,
      export_event_labels |-> [is_dict |-> TRUE, map |-> ExportCode]]}
    \cup { [exists |-> TRUE,
            conditions |-> <<[label |-> "Forest1",
                              filters |-> [Shown_Scene |-> Scalar("Forest1")]]>>,
            export_event_labels |-> [is_dict |-> d, map |-> ExportCode]]
           : d \in BOOLEAN }

InitXdfToSet ==
    /\ pc = "1:load_and_merge"
    /\ IdleAlign
    /\ df_physio = Pending
    /\ conditions = <<>>
    /\ IdleExtract
    /\ IdleLatency
    /\ xdf \in PipelineRecordings
    /\ \/ physio_csv = Absent
       \/ \E cells \in SeqsOf([Shown_Scene : {" Forest1 ", "Stress  Room"},
                               Response : {NaN, "Correct"}], 0, MaxRows) :
             physio_csv = PipelineLog(cells)
    /\ config_yaml \in {Absent} \cup PipelineConfigs
    /\ stripped = Pending
    /\ merged = Pending
    /\ \E k \in {2 * EegChannels - 1, 2 * EegChannels} :
          channel_names = ChannelNames(k)
    /\ template = PlainTemplate
    /\ EEG = Pending
    /\ set_file \in {Absent, OldFile}
    /\ IdleBatch

NextXdfToSet ==
    \/ LoadSignal
    \/ ReadMetadata
    \/ Classify
    \/ MapTimestamps
    \/ ExtractEvents
    \/ ConvertEvents
    \/ BuildContainer
    \/ SaveSet

SpecXdfToSet == InitXdfToSet /\ [][NextXdfToSet]_vars

\* the outcomes of the fallible steps of the conversion, in their order
StepOutcomes ==
    <<merged, df_physio, classified, aligned_dt, event_ts, response_ts,
      event_list, EEG>>

\* every fallible step has run and succeeded
AllStepsSucceeded ==
    \A k \in DOMAIN StepOutcomes : StepOutcomes[k].status = "ok"

\* some step ended with an error
SomeStepRaised ==
    \E k \in DOMAIN StepOutcomes :
        StepOutcomes[k].status \notin {"ok", "pending"}

\* the file at the output path is as it was before the conversion
OutputUntouched ==
    ~ set_file.exists \/ set_file.content.EEG.setname = "previous"

\* C20: in xdf_to_set, save_set is executed only after every fallible step
\* has succeeded (stream loading and count check, alignment, channel
\* stripping and merge, metadata loading, condition config check, timestamp
\* mapping, event extraction and conversion, channel-label count check):
\* whenever a single-file conversion ends with an input or configuration
\* error, no output file has been created or overwritten by that conversion.
SaveOnlyAfterSuccess ==
    /\ pc \in {"9:save_set", "saved"} => AllStepsSucceeded
    /\ ~ OutputUntouched => pc = "saved"
    /\ SomeStepRaised => pc = "raised" /\ OutputUntouched

\* C20 witness: the conversion reached its last check with every earlier
\* step successful, failed the channel-label count check, and left the file
\* of an earlier conversion in place
SaveOnlyAfterSuccessWitness ==
    /\ pc = "raised"
    /\ event_list.status = "ok"
    /\ Len(event_list.events) >= 2
    /\ EEG.status = "ValueError"
    /\ set_file.exists
    /\ OutputUntouched


----------------------------------------------------------------------------
(* Batch runners of the conversion stage:
   run_xdf_to_set_end2end.py, run_xdf_to_set_sequential.py,
   run_xdf_to_set_parallel.py, and the stage-1 runner of the pipeline
   master with run_pipeline_master.py.

   A recording on disk is one of four kinds: "valid" (two 66-channel EEG
   streams at 500 Hz), "rate250" (as valid, at 250 Hz), "one_stream" (a
   single EEG stream: load_and_merge raises) and "missing" (no file).
   xdf_to_set, modelled step by step above, is summarised here by the
   outcome it has on each kind. *)

\* most participants of one request
MaxBatch == 2
\* largest participant number
MaxParticipantId == 3
\* most worker processes requested
MaxProcesses == 2

ParticipantIds == 1..MaxParticipantId
RecordingKinds == {"valid", "rate250", "one_stream", "missing"}

\* xdf_to_set(xdf, out, config_path): raises, or writes the output and
\* returns the summary
xdf_to_set(kind) ==
    IF kind \in {"one_stream", "missing"}
    THEN Raise("Exception", kind)
    ELSE [status |-> "ok",
          summary |-> [nbchan |-> 2 * EegChannels,
                       srate |-> IF kind = "rate250" THEN 250 ELSE 500]]

\* the printed line of a loop runner
Line(p, outcome) == <<p, outcome>>

\* sys.exit(0 if failed_count == 0 else 1); the mutant exits with 0
exit_code_zero(failed) == 0
exit_code(failed) == IF failed = 0 THEN 0 ELSE 1

(* run_xdf_to_set_end2end.py: one iteration of the loop of main *)
End2endIteration ==
    /\ runner = "end2end"
    /\ exit_status = Running
    /\ position <= Len(participants)
    /\ LET p == participants[position]
           outcome == xdf_to_set(recordings[p])
       IN  IF outcome.status = "ok"
           THEN /\ sets' = sets \cup {p}
                /\ success_count' = success_count + 1
                /\ stdout' = Append(stdout, Line(p, "Completed"))
                /\ UNCHANGED failed_count
           ELSE /\ failed_count' = failed_count + 1
                /\ stdout' = Append(stdout, Line(p, "Failed"))
                /\ UNCHANGED <<sets, success_count>>
    /\ position' = position + 1
    /\ UNCHANGED <<pc, alignVars, logVars, extractVars, latencyVars,
                   mergeVars, containerVars, runner, participants,
                   recordings, processes, skipped_count, workers, taskqueue,
                   outqueue, results, exit_status, stage>>

(* run_xdf_to_set_end2end.py: the end of main *)
End2endExit ==
    /\ runner = "end2end"
    /\ exit_status = Running
    /\ position > Len(participants)
    /\ exit_status' = exit_code(failed_count)
    /\ UNCHANGED <<pc, alignVars, logVars, extractVars, latencyVars,
                   mergeVars, containerVars, runner, participants,
                   recordings, sets, processes, position, success_count,
                   skipped_count, failed_count, stdout, workers, taskqueue,
                   outqueue, results, stage>>

\* args.skip_existing: store_true with default True
skip_existing == TRUE

(* run_xdf_to_set_sequential.py: one iteration of the loop *)
SequentialIteration ==
    /\ runner = "sequential"
    /\ exit_status = Running
    /\ position <= Len(participants)
    /\ LET p == participants[position]
           outcome == xdf_to_set(recordings[p])
       IN  IF skip_existing /\ p \in sets
           THEN /\ skipped_count' = skipped_count + 1
                /\ stdout' = Append(stdout, Line(p, "SKIP"))
                /\ UNCHANGED <<sets, success_count, failed_count>>
           ELSE IF outcome.status = "ok"
           THEN /\ sets' = sets \cup {p}
                /\ success_count' = success_count + 1
                /\ stdout' = Append(stdout, Line(p, "Success"))
                /\ UNCHANGED <<skipped_count, failed_count>>
           ELSE /\ failed_count' = failed_count + 1
                /\ stdout' = Append(stdout, Line(p, "FAILED"))
                /\ UNCHANGED <<sets, success_count, skipped_count>>
    /\ position' = position + 1
    /\ UNCHANGED <<pc, alignVars, logVars, extractVars, latencyVars,
                   mergeVars, containerVars, runner, participants,
                   recordings, processes, workers, taskqueue, outqueue,
                   results, exit_status, stage>>

(* run_xdf_to_set_sequential.py: the summary and sys.exit *)
SequentialExit ==
    /\ runner = "sequential"
    /\ exit_status = Running
    /\ position > Len(participants)
    /\ exit_status' = exit_code(failed_count)
    /\ UNCHANGED <<pc, alignVars, logVars, extractVars, latencyVars,
                   mergeVars, containerVars, runner, participants,
                   recordings, sets, processes, position, success_count,
                   skipped_count, failed_count, stdout, workers, taskqueue,
                   outqueue, results, stage>>

\* validate_input_file(xdf_path): the file exists
validate_input_file(kind) ==
    IF kind = "missing"
    THEN Raise("FileNotFoundError", "Input file not found")
    ELSE [status |-> "ok"]

\* validate_output_file(set_path, expected_channels=128, expected_srate=500)
validate_output_file(set_exists, summary) ==
    IF ~ set_exists
    THEN Raise("FileNotFoundError", "Output .set file not created")
    ELSE IF summary.nbchan # 128 \/ summary.srate # 500
    THEN Raise("ValueError", "Output validation failed")
    ELSE [status |-> "ok"]

\* convert_participant(p_num): the result dict of one participant; every
\* exception of the try block ends in status FAILED
convert_participant(p_num, kind) ==
    LET input == validate_input_file(kind)
        conversion == xdf_to_set(kind)
        output == validate_output_file(TRUE, conversion.summary)
    IN  IF input.status # "ok"
        THEN [participant |-> p_num, status |-> "FAILED",
              checks |-> <<>>, error |-> input.message]
        ELSE IF conversion.status # "ok"
        THEN [participant |-> p_num, status |-> "FAILED",
              checks |-> <<"input_validation">>,
              error |-> conversion.message]
        ELSE IF output.status # "ok"
        THEN [participant |-> p_num, status |-> "FAILED",
              checks |-> <<"input_validation", "conversion">>,
              error |-> output.message]
        ELSE [participant |-> p_num, status |-> "SUCCESS",
              checks |-> <<"input_validation", "conversion",
                           "output_structure", "amplitude_scaling">>,
              error |-> ""]

\* whether the call of xdf_to_set inside convert_participant wrote the file
writes_output(kind) ==
    validate_input_file(kind).status = "ok" /\ xdf_to_set(kind).status = "ok"

(* Pool worker: take the next task of pool.map from the task queue *)
WorkerGet(w) ==
    /\ runner = "parallel"
    /\ workers[w] = 0
    /\ taskqueue # <<>>
    /\ workers' = [workers EXCEPT ![w] = Head(taskqueue)]
    /\ taskqueue' = Tail(taskqueue)
    /\ UNCHANGED <<pc, alignVars, logVars, extractVars, latencyVars,
                   mergeVars, containerVars, runner, participants,
                   recordings, sets, processes, position, success_count,
                   skipped_count, failed_count, stdout, outqueue, results,
                   exit_status, stage>>

(* Pool worker: run convert_participant on its task and put the result *)
WorkerRun(w) ==
    /\ runner = "parallel"
    /\ workers[w] # 0
    /\ LET i == workers[w]
           p == participants[i]
       IN  /\ outqueue' =
                 [outqueue EXCEPT
                    ![i] = convert_participant(p, recordings[p])]
           /\ sets' = IF writes_output(recordings[p])
                      THEN sets \cup {p} ELSE sets
    /\ workers' = [workers EXCEPT ![w] = 0]
    /\ UNCHANGED <<pc, alignVars, logVars, extractVars, latencyVars,
                   mergeVars, containerVars, runner, participants,
                   recordings, processes, position, success_count,
                   skipped_count, failed_count, stdout, taskqueue, results,
                   exit_status, stage>>

\* pool.map: the results in the order of the iterable; the mutant returns
\* them in the reverse order
pool_map_reversed(out) == [i \in DOMAIN out |-> out[Len(out) + 1 - i]]
pool_map(out) == [i \in DOMAIN out |-> out[i]]

\* sum(1 for r in results if r['status'] == 'SUCCESS')
RECURSIVE count_status(_, _)
count_status(rs, status) ==
    IF rs = <<>> THEN 0
    ELSE (IF Head(rs).status = status THEN 1 ELSE 0)
         + count_status(Tail(rs), status)

\* sys.exit(0 if success_count == len(participants) else 1)
exit_code_parallel(successes, total) == IF successes = total THEN 0 ELSE 1

(* run_xdf_to_set_parallel.py: pool.map returns, summary, manifest, exit *)
ParallelSummary ==
    /\ runner = "parallel"
    /\ exit_status = Running
    /\ \A i \in DOMAIN outqueue : outqueue[i] # Pending
    /\ results' = pool_map(outqueue)
    /\ success_count' = count_status(results', "SUCCESS")
    /\ failed_count' = count_status(results', "FAILED")
    /\ exit_status' = exit_code_parallel(success_count', Len(participants))
    /\ UNCHANGED <<pc, alignVars, logVars, extractVars, latencyVars,
                   mergeVars, containerVars, runner, participants,
                   recordings, sets, processes, position, skipped_count,
                   stdout, workers, taskqueue, outqueue, stage>>


\* participants = [1, 2, 3] of the stage-1 runner of the pipeline master
Stage1Participants == <<1, 2, 3>>

(* scripts/preprocessing/raw_conversion/run/run_xdf_to_set_end2end.py:
   one iteration of the loop *)
Stage1Iteration ==
    /\ runner = "stage1"
    /\ stage.status = "running"
    /\ stage.script_exists
    /\ exit_status = Running
    /\ position <= Len(participants)
    /\ LET p == participants[position]
           outcome == xdf_to_set(recordings[p])
       IN  IF outcome.status = "ok"
           THEN /\ sets' = sets \cup {p}
                /\ stdout' = Append(stdout, Line(p, "Conversion summary"))
           ELSE /\ stdout' = Append(stdout, Line(p, "Conversion failed"))
                /\ UNCHANGED sets
    /\ position' = position + 1
    /\ UNCHANGED <<pc, alignVars, logVars, extractVars, latencyVars,
                   mergeVars, containerVars, runner, participants,
                   recordings, processes, success_count, skipped_count,
                   failed_count, workers, taskqueue, outqueue, results,
                   exit_status, stage>>

(* the stage-1 runner reaches the end of the script: exit status 0 *)
Stage1Exit ==
    /\ runner = "stage1"
    /\ stage.status = "running"
    /\ stage.script_exists
    /\ exit_status = Running
    /\ position > Len(participants)
    /\ exit_status' = 0
    /\ UNCHANGED <<pc, alignVars, logVars, extractVars, latencyVars,
                   mergeVars, containerVars, runner, participants,
                   recordings, sets, processes, position, success_count,
                   skipped_count, failed_count, stdout, workers, taskqueue,
                   outqueue, results, stage>>

\* run_stage(stage_num, stage_info) for a python stage: False when the
\* script is not found or subprocess.run(check=True) raises
run_stage(script_exists, returncode) ==
    IF ~ script_exists THEN FALSE ELSE returncode = 0

(* run_pipeline_master.py: run_stage returns and main records the stage *)
RunStage ==
    /\ runner = "stage1"
    /\ stage.status = "running"
    /\ ~ stage.script_exists \/ exit_status # Running
    /\ stage' = [stage EXCEPT
                   !.status = IF run_stage(stage.script_exists, exit_status)
                              THEN "OK" ELSE "FAILED"]
    /\ UNCHANGED <<pc, alignVars, logVars, extractVars, latencyVars,
                   mergeVars, containerVars, runner, participants,
                   recordings, sets, processes, position, success_count,
                   skipped_count, failed_count, stdout, workers, taskqueue,
                   outqueue, results, exit_status>>

\* the participants named in a request
Requested(ps) == { ps[i] : i \in DOMAIN ps }

InitBatch ==
    /\ pc = "batch"
    /\ IdleAlign
    /\ df_physio = NoLog
    /\ conditions = <<>>
    /\ IdleExtract
    /\ IdleLatency
    /\ IdleMerge
    /\ IdleContainer
    /\ runner \in {"end2end", "sequential", "parallel", "stage1"}
    /\ participants \in
         IF runner = "stage1" THEN {Stage1Participants}
         ELSE SeqsOf(ParticipantIds, 1, MaxBatch)
    /\ recordings \in
         { r \in [ParticipantIds -> RecordingKinds] :
             \A p \in ParticipantIds \ Requested(participants) :
                r[p] = "missing" }
    /\ sets \in IF runner = "sequential"
                THEN SUBSET Requested(participants) ELSE {{}}
    /\ processes \in
         IF runner = "parallel"
         THEN { Min(n, Len(participants)) : n \in 1..MaxProcesses }
         ELSE {0}
    /\ position = IF runner = "parallel" THEN 0 ELSE 1
    /\ success_count = 0
    /\ skipped_count = 0
    /\ failed_count = 0
    /\ stdout = <<>>
    /\ workers = [w \in 1..processes |-> 0]
    /\ taskqueue =
         IF runner = "parallel"
         THEN [i \in 1..Len(participants) |-> i] ELSE <<>>
    /\ outqueue =
         IF runner = "parallel"
         THEN [i \in 1..Len(participants) |-> Pending] ELSE << >>
    /\ results = <<>>
    /\ exit_status = Running
    /\ stage \in
         IF runner = "stage1"
         THEN { [status |-> "running", script_exists |-> b] :
                  b \in BOOLEAN }
         ELSE {Pending}

NextBatch ==
    \/ End2endIteration
    \/ End2endExit
    \/ SequentialIteration
    \/ SequentialExit
    \/ \E w \in DOMAIN workers : WorkerGet(w)
    \/ \E w \in DOMAIN workers : WorkerRun(w)
    \/ ParallelSummary
    \/ Stage1Iteration
    \/ Stage1Exit
    \/ RunStage

SpecBatch == InitBatch /\ [][NextBatch]_vars


\* the batch runners under pipelines/01_xdf_to_set
BatchRunners == {"end2end", "sequential", "parallel"}

\* the outcome recorded for each requested participant, in recorded order
Recorded ==
    IF runner = "parallel"
    THEN [i \in DOMAIN results |->
            Line(results[i].participant, results[i].status)]
    ELSE stdout

Skipped(outcome) == outcome = "SKIP"
Failed(outcome) == outcome \in {"Failed", "FAILED"}
Succeeded(outcome) == outcome \in {"Completed", "Success", "SUCCESS"}

\* whether the conversion of a recording fails in a runner: xdf_to_set
\* raises, or (parallel runner) the output does not pass its validation
ConversionFails(run, kind) ==
    IF run = "parallel" THEN kind # "valid"
    ELSE kind \in {"one_stream", "missing"}

\* C21: in each batch runner of the conversion stage every requested
\* participant gets exactly one recorded outcome (success, failure or
\* skipped-as-existing), in request order; a failing conversion never stops
\* the batch before its exit, and the outcome of a participant is decided by
\* its own recording (and, for a skip, its own output file) alone.
EveryParticipantRecorded ==
    runner \in BatchRunners =>
      /\ exit_status = Running => ENABLED NextBatch
      /\ runner # "parallel" => Len(stdout) = position - 1
      /\ exit_status # Running =>
           /\ Len(Recorded) = Len(participants)
           /\ \A i \in DOMAIN participants :
                LET p == participants[i]
                    outcome == Recorded[i][2]
                IN  /\ Recorded[i][1] = p
                    /\ Skipped(outcome) \/ Failed(outcome)
                         \/ Succeeded(outcome)
                    /\ Skipped(outcome) =>
                         runner = "sequential" /\ p \in sets
                    /\ Failed(outcome) =>
                         ConversionFails(runner, recordings[p])
                    /\ Succeeded(outcome) =>
                         /\ ~ ConversionFails(runner, recordings[p])
                         /\ p \in sets

\* two workers, the first participant fails and the second still succeeds
EveryParticipantRecordedWitness ==
    /\ runner = "parallel"
    /\ processes = 2
    /\ exit_status # Running
    /\ Len(results) = 2
    /\ results[1].status = "FAILED"
    /\ results[2].status = "SUCCESS"
    /\ participants[1] # participants[2]


\* the conversion of the i-th requested participant was attempted and failed
FailedInRun(i) ==
    /\ ~ Skipped(Recorded[i][2])
    /\ ConversionFails(runner, recordings[participants[i]])

\* C22: a batch runner under pipelines/01_xdf_to_set exits with a non-zero
\* status exactly when the conversion of at least one participant failed in
\* that run; a participant skipped because its output exists does not count.
ExitStatusAggregatesFailures ==
    runner \in BatchRunners /\ exit_status # Running =>
      (exit_status # 0 <=> \E i \in DOMAIN participants : FailedInRun(i))

\* a sequential run that skips one participant and fails on another
ExitStatusAggregatesFailuresWitness ==
    /\ runner = "sequential"
    /\ exit_status = 1
    /\ skipped_count = 1
    /\ failed_count = 1
    /\ success_count = 0


\* the stage-1 runner printed a failed conversion
Stage1ConversionFailed ==
    \E i \in DOMAIN stdout : stdout[i][2] = "Conversion failed"

\* C29: when stage 1 runs through the pipeline master, a failed conversion
\* of any participant makes the stage-1 runner exit with a non-zero status,
\* so that run_stage returns failure and the master records stage 1 as
\* FAILED.
Stage1FailureRecorded ==
    /\ runner = "stage1"
    /\ stage.script_exists
    /\ Stage1ConversionFailed
    => /\ exit_status # Running => exit_status # 0
       /\ stage.status # "running" => stage.status = "FAILED"


----------------------------------------------------------------------------
(* The test-targeted implementation, scripts/xdf_to_set/xdf_to_set.py:
   extract_response_timestamps *)

\* most rows of a log given to the test-targeted response extractor
MaxRunRows == 3

\* cells of the Response column: null, the two canonical outcomes, a
\* lower-case variant, a blank string and an unknown word
RawResponses == {NaN, "Correct", "Incorrect", "correct", "", "maybe"}

\* (mutant) the response is taken as written
normalize_resp_verbatim(val) == val

\* _normalize_resp(val): None for a null or blank cell; the value stripped
\* and lower-cased is mapped to Correct or Incorrect, else title-cased
normalize_resp(val) ==
    CASE val = NaN -> NaN
      [] val = "" -> NaN
      [] val = "Correct" -> "Correct"
      [] val = "correct" -> "Correct"
      [] val = "Incorrect" -> "Incorrect"
      [] val = "maybe" -> "Maybe"

\* f"Response_{resp_val}"
format_label(val) ==
    CASE val = "" -> "Response_"
      [] val = "Correct" -> "Response_Correct"
      [] val = "Incorrect" -> "Response_Incorrect"
      [] val = "Maybe" -> "Response_Maybe"
      [] val = "correct" -> "Response_correct"
      [] val = "maybe" -> "Response_maybe"

\* the group keys of groupby, which sorts them: the response values in
\* string order
sorted_keys == <<"", "Correct", "Incorrect", "Maybe", "correct", "maybe">>

\* df[df["_Response_norm"].notna()]: the rows with a normalised response
valid_responses(df) ==
    SelectSeq([i \in DOMAIN df.rows |->
                 [index |-> df.rows[i].index,
                  norm |-> normalize_resp(df.rows[i].Response)]],
              LAMBDA r : r.norm # NaN)

\* norm.ne(norm.shift()): the rows of valid_responses that start a run
response_changes(valid) ==
    { k \in DOMAIN valid : k = 1 \/ valid[k].norm # valid[k - 1].norm }

\* group.index[0] of the groups of one response value, in group order
first_timestamps(valid, resp_val) ==
    LET starts == SelectSeq([k \in DOMAIN valid |-> k],
                            LAMBDA k : /\ k \in response_changes(valid)
                                       /\ valid[k].norm = resp_val)
    IN  [m \in DOMAIN starts |-> valid[starts[m]].index]

\* the result is the dict in insertion order: a sequence of [label, ts]
scripts_extract_response_timestamps(df) ==
    LET valid == valid_responses(df)
        keys == SelectSeq(sorted_keys,
                          LAMBDA v : \E k \in DOMAIN valid : valid[k].norm = v)
    IN  IF df.index_dtype # "datetime64"
        THEN [status |-> "ValueError",
              message |-> "df_physio index must be datetime64[ns]."]
        ELSE IF "Response" \notin df.columns
        THEN [status |-> "ok", dict |-> <<>>]
        ELSE [status |-> "ok",
              dict |-> [k \in DOMAIN keys |->
                          [label |-> format_label(keys[k]),
                           ts |-> first_timestamps(valid, keys[k])]]]

\* the log of test_extract_response_timestamps_basic
BasicScenario ==
    ResponseLog({"Response"}, "datetime64",
        [i \in 1..8 |->
            [Response |-> <<"Correct", "Correct", "Correct", "Incorrect",
                            "Incorrect", "Incorrect", "Correct",
                            "Correct">>[i]]])

\* the log of test_extract_response_timestamps_alternating
AlternatingScenario ==
    ResponseLog({"Response"}, "datetime64",
        [i \in 1..6 |->
            [Response |-> IF i % 2 = 1 THEN "Correct" ELSE "Incorrect"]])

InitResponseRuns ==
    /\ pc = "scripts:extract_response_timestamps"
    /\ IdleAlign
    /\ \/ df_physio \in {BasicScenario, AlternatingScenario}
       \/ \E n \in 0..MaxRunRows :
            \/ \E rs \in [1..n -> [Response : RawResponses]] :
                  \E d \in {"datetime64", "float64"} :
                      df_physio = ResponseLog({"Response"}, d, rs)
            \/ \E rs \in [1..n -> [Shown_Scene : {"Forest1"}]] :
                  df_physio = ResponseLog({"Shown_Scene"}, "datetime64", rs)
    /\ conditions = <<>>
    /\ IdleExtract
    /\ IdleLatency
    /\ IdleMerge
    /\ IdleContainer
    /\ IdleBatch

ScriptsExtractResponseTimestamps ==
    /\ pc = "scripts:extract_response_timestamps"
    /\ response_ts' = scripts_extract_response_timestamps(df_physio)
    /\ pc' = "done"
    /\ UNCHANGED <<alignVars, logVars, classified, event_ts, latencyVars,
                   mergeVars, containerVars, batchVars>>

NextResponseRuns == ScriptsExtractResponseTimestamps

SpecResponseRuns == InitResponseRuns /\ [][NextResponseRuns]_vars


\* the log has the Response column and a datetime index
RunsLogUsable ==
    /\ pc = "done"
    /\ "Response" \in df_physio.columns
    /\ df_physio.index_dtype = "datetime64"

\* the response of row i as written, and in its normalised form: a blank
\* cell counts as no response, a variant spelling as its canonical outcome
RawOutcome(i) == df_physio.rows[i].Response
CanonicalOutcome(i) ==
    LET val == RawOutcome(i)
    IN  IF val \in {NaN, ""} THEN NaN
        ELSE IF val \in {"Correct", "correct"} THEN "Correct"
        ELSE IF val = "maybe" THEN "Maybe"
        ELSE val

\* row i starts a maximal run of equal outcomes among the rows that have an
\* outcome, the outcome of a row being given by Outcome
StartsRun(Outcome(_), i) ==
    /\ Outcome(i) # NaN
    /\ \A j \in 1..(i - 1) :
          (Outcome(j) # NaN /\ \A m \in (j + 1)..(i - 1) : Outcome(m) = NaN)
              => Outcome(j) # Outcome(i)

\* the result lists the timestamp of row i under the label of val
ListedUnder(i, val) ==
    \E k \in DOMAIN response_ts.dict :
        /\ response_ts.dict[k].label = format_label(val)
        /\ \E m \in DOMAIN response_ts.dict[k].ts :
              response_ts.dict[k].ts[m] = df_physio.rows[i].index

\* the number of events of the result
RECURSIVE EventCount(_)
EventCount(dict) ==
    IF dict = <<>> THEN 0 ELSE Len(Head(dict).ts) + EventCount(Tail(dict))

\* every list of the result is strictly increasing and not empty
ListsInTimeOrder ==
    \A k \in DOMAIN response_ts.dict :
        /\ response_ts.dict[k].ts # <<>>
        /\ \A m \in 1..(Len(response_ts.dict[k].ts) - 1) :
              response_ts.dict[k].ts[m] < response_ts.dict[k].ts[m + 1]

\* one event per run of the outcomes given by Outcome, at the first row of
\* the run, under Response_<outcome>, in time order per label
OneEventPerRun(Outcome(_)) ==
    /\ response_ts.status = "ok"
    /\ \A i \in DOMAIN df_physio.rows :
          StartsRun(Outcome, i) => ListedUnder(i, Outcome(i))
    /\ EventCount(response_ts.dict)
          = Cardinality({ i \in DOMAIN df_physio.rows : StartsRun(Outcome, i) })
    /\ ListsInTimeOrder
    /\ (\A i \in DOMAIN df_physio.rows : Outcome(i) = NaN)
          => response_ts.dict = <<>>

\* C24 (as stated): the test-targeted extract_response_timestamps emits
\* exactly one event per maximal run of identical consecutive non-null
\* response values, at the timestamp of the first row of the run and under
\* Response_<value>, in time order per label; no non-null response gives an
\* empty dictionary.
OneEventPerRawRun ==
    RunsLogUsable => OneEventPerRun(RawOutcome)

\* C24 (amended): the runs are runs of the normalised response (stripped,
\* lower-cased, variants mapped to Correct / Incorrect, otherwise
\* title-cased; a blank cell is no response) and the label is
\* Response_<normalised value>; a log without a normalised response gives an
\* empty dictionary.
OneEventPerNormalisedRun ==
    RunsLogUsable => OneEventPerRun(CanonicalOutcome)

\* C24 witness: the log of the basic test gives Correct at rows 0 and 6 and
\* Incorrect at row 3
OneEventPerRunWitness ==
    /\ RunsLogUsable
    /\ df_physio = BasicScenario
    /\ response_ts.dict =
          <<[label |-> "Response_Correct", ts |-> <<0, 6>>],
            [label |-> "Response_Incorrect", ts |-> <<3>>]>>


----------------------------------------------------------------------------
(* add_events_to_eeg_struct as the caller sees it.  Python dicts are
   objects: EEG holds the objects, the reference the caller passed and the
   reference the function returned (0 before the call).  Both versions of
   the function are modelled, pipelines/01_xdf_to_set/xdf_to_set.py and the
   test-targeted scripts/xdf_to_set/xdf_to_set.py. *)

\* most events of a list given to add_events_to_eeg_struct
MaxEvents == 2

\* (mutant) the function works on the caller's dict itself
dict_copy_alias(objects, ref) == [objects |-> objects, ref |-> ref]

\* EEG = dict(EEG): a new dict with the same keys and values
dict_copy(objects, ref) ==
    [objects |-> Append(objects, objects[ref]), ref |-> Len(objects) + 1]

\* EEG[key] = value
setitem(objects, ref, key, value) ==
    [objects EXCEPT ![ref] = (key :> value) @@ @]

\* the urevent structs of the test-targeted version: latency and type
urevent_list(events) ==
    [i \in DOMAIN events |->
        [latency |-> one_based(events[i].latency), type |-> events[i].type]]

\* add_events_to_eeg_struct of pipelines/01_xdf_to_set: the copy gets the
\* event field only
pipelines_add_events_to_eeg_struct(objects, ref, events) ==
    LET copy == dict_copy(objects, ref)
        with_events == add_events_to_eeg_struct(copy.objects[copy.ref], events)
    IN  [objects |-> setitem(copy.objects, copy.ref, "event",
                             with_events.event),
         ref |-> copy.ref]

\* add_events_to_eeg_struct of scripts/xdf_to_set: the copy gets the event
\* and the urevent field
scripts_add_events_to_eeg_struct(objects, ref, events) ==
    LET copy == dict_copy(objects, ref)
        with_events == add_events_to_eeg_struct(copy.objects[copy.ref], events)
        evented == setitem(copy.objects, copy.ref, "event", with_events.event)
    IN  [objects |-> setitem(evented, copy.ref, "urevent",
                             urevent_list(events)),
         ref |-> copy.ref]

\* the EEG dicts a caller passes: the dict of the unit test, and one that
\* already carries an event field
CallerDicts ==
    { [srate |-> 500, nbchan |-> 2, pnts |-> 10, trials |-> 1],
      [srate |-> 500, nbchan |-> 2, pnts |-> 10, trials |-> 1,
       event |-> <<>>] }

\* the event lists: zero-based latencies and the type codes of the unit test
EventLists == SeqsOf([latency : {0, 4}, type : {10, 20}], 0, MaxEvents)

InitAddEvents ==
    /\ pc \in {"pipelines:add_events_to_eeg_struct",
               "scripts:add_events_to_eeg_struct"}
    /\ IdleAlign
    /\ df_physio = NoLog
    /\ conditions = <<>>
    /\ IdleExtract
    /\ eeg_dt_aligned = <<>>
    /\ event_ts_dict = <<>>
    /\ export_event_labels = <<>>
    /\ ignore_missing = TRUE
    /\ event_list \in { [status |-> "ok", events |-> evs] : evs \in EventLists }
    /\ aligned_dt = Pending
    /\ IdleMerge
    /\ channel_names = <<>>
    /\ template = << >>
    /\ EEG \in { [objects |-> <<d>>, caller |-> 1, out |-> 0]
                 : d \in CallerDicts }
    /\ set_file = Absent
    /\ IdleBatch

(* out = add_events_to_eeg_struct(EEG, events), pipelines version *)
PipelinesAddEvents ==
    /\ pc = "pipelines:add_events_to_eeg_struct"
    /\ LET call == pipelines_add_events_to_eeg_struct(
                       EEG.objects, EEG.caller, event_list.events)
       IN  EEG' = [objects |-> call.objects, caller |-> EEG.caller,
                   out |-> call.ref]
    /\ pc' = "pipelines:returned"
    /\ UNCHANGED <<alignVars, logVars, extractVars, latencyVars, mergeVars,
                   channel_names, template, set_file, batchVars>>

(* out = add_events_to_eeg_struct(EEG, events), test-targeted version *)
ScriptsAddEvents ==
    /\ pc = "scripts:add_events_to_eeg_struct"
    /\ LET call == scripts_add_events_to_eeg_struct(
                       EEG.objects, EEG.caller, event_list.events)
       IN  EEG' = [objects |-> call.objects, caller |-> EEG.caller,
                   out |-> call.ref]
    /\ pc' = "scripts:returned"
    /\ UNCHANGED <<alignVars, logVars, extractVars, latencyVars, mergeVars,
                   channel_names, template, set_file, batchVars>>

NextAddEvents == PipelinesAddEvents \/ ScriptsAddEvents

SpecAddEvents == InitAddEvents /\ [][NextAddEvents]_vars

\* the call has returned
Returned == pc \in {"pipelines:returned", "scripts:returned"}

\* C25: add_events_to_eeg_struct never mutates the caller's EEG dict: over
\* the call the caller's dict keeps its key set and its values (no event
\* field is added to it), and the events are in the returned dict, which is
\* another object.
CallerDictUntouched ==
    [][/\ EEG'.caller = EEG.caller
       /\ EEG'.objects[EEG.caller] = EEG.objects[EEG.caller]
       /\ EEG'.out # EEG.caller
       /\ "event" \in DOMAIN EEG'.objects[EEG'.out]
       /\ Len(EEG'.objects[EEG'.out].event) = Len(event_list.events)]_vars

\* C25 witness: the call returned two events in a new dict while the
\* caller's dict has no event field
CallerDictUntouchedWitness ==
    /\ Returned
    /\ EEG.out # EEG.caller
    /\ "event" \notin DOMAIN EEG.objects[EEG.caller]
    /\ Len(EEG.objects[EEG.out].event) = 2

\* C26: the struct returned by add_events_to_eeg_struct of the conversion
\* module (pipelines/01_xdf_to_set) has an event and a urevent field, each
\* with one entry per input event, the urevent entry carrying the type and
\* the 1-based latency of the corresponding event entry.
UreventMirrorsEvent ==
    pc = "pipelines:returned" =>
        LET out == EEG.objects[EEG.out]
        IN  /\ {"event", "urevent"} \subseteq DOMAIN out
            /\ Len(out.event) = Len(event_list.events)
            /\ Len(out.urevent) = Len(event_list.events)
            /\ \A i \in DOMAIN out.event :
                  /\ out.urevent[i].type = out.event[i].type
                  /\ out.urevent[i].latency = out.event[i].latency
                  /\ out.event[i].latency = event_list.events[i].latency + 1


----------------------------------------------------------------------------
(* The response lists of the conversion module *)

\* the places <<label, position>> at which the result lists the instant t
Occurrences(t) ==
    { km \in (DOMAIN response_ts.dict) \X (1..(MaxRespRows + 5)) :
        /\ km[2] \in DOMAIN response_ts.dict[km[1]].ts
        /\ response_ts.dict[km[1]].ts[km[2]] = t }

\* C28: for each response label returned by extract_response_timestamps of
\* the conversion module the list of timestamps is strictly increasing, and
\* a row that is both a countdown reset and the first non-null response of
\* its task group contributes exactly one event.
ResponseListsStrictlyIncreasing ==
    (pc = "done" /\ ResponseLogUsable) =>
        /\ response_ts.status = "ok"
        /\ ListsInTimeOrder
        /\ \A i \in DOMAIN df_physio.rows :
              (IsResetRow(i) /\ FirstOfGroup(i))
                  => Cardinality(Occurrences(df_physio.rows[i].index)) = 1

\* C28 witness: a row that is a reset and the first response of its group
\* was listed once, in a list of several timestamps
ResponseListsWitness ==
    /\ pc = "done"
    /\ ResponseLogUsable
    /\ response_ts.status = "ok"
    /\ \E i \in DOMAIN df_physio.rows :
          /\ IsResetRow(i)
          /\ FirstOfGroup(i)
          /\ Cardinality(Occurrences(df_physio.rows[i].index)) = 1
    /\ \E k \in DOMAIN response_ts.dict : Len(response_ts.dict[k].ts) >= 2

====
